---- MODULE Spec2Model ----
(***************************************************************************)
(* ProvChain core (src/src/test.js, second half: ProvenanceNode,           *)
(* ProvenanceEdge, ProvChainGraph).  Node objects live in a heap `objs`    *)
(* indexed by their id; the graph holds references (ids) in Map insertion  *)
(* order, edge objects in Map insertion order, the four secondary indices  *)
(* and the metrics.  Every operation records its outcome in `lastOp`.      *)
(***************************************************************************)
EXTENDS Integers, Sequences, FiniteSets, TLC

\* ------------------------------------------------------------------ bounds
MaxNodes == 3
MaxEdges == 3
MaxHist == 2
MaxDepth == 2
IndexNodes == 2
IndexEdges == 1
VerifyMaxEdges == 2
LinkNodes == 2
LinkHist == 3
MaxCallers == 2
MaxThreshold == 2
MaxTimeout == 2
MaxTime == 5
MaxFailures == 3
MaxRetries == 3
MaxItems == 6
MaxOps == 3
MaxStored == 1
MaxCids == 11
MaxDeals == 4
MaxEntries == 4
MaxAccess == 2
\* maxCacheSize of optimizeCache (1000 in the source), scaled to the caches of the model.
MaxCacheSize == 2
QueryNodes == 2
MaxLimit == 2
MaxOffset == 1

\* --------------------------------------------------------- program constants
DefaultMaxDepth == 10
DefaultThreshold == 5
DefaultTimeout == 60000
DefaultMaxRetries == 3
DefaultBaseDelay == 1000
DefaultMaxDelay == 30000
DefaultBackoffMultiplier == 2
BatchSize == 5
RetrieveBatchSize == 10
WarmStorageThreshold == 1048576
VerificationTtl == 3600000

\* ------------------------------------------------------------ value domains
NodeIds == 1..MaxNodes
NoNode == 0
NoEdge == 0
NoCid == "null"
Cids == {"c1", "c2"}
IndexCids == {"c1"}
Tags == {"t1"}
NodeTypes == {"dataset"}
Days == {"2024-01-01"}
ProofArgs == {"proof", "undefined"}
Verdicts == {"valid", "invalid", "throws"}

\* ------------------------------------------------------------ sequence help
Range(s) == {s[i] : i \in 1..Len(s)}

Includes(s, x) == \E i \in 1..Len(s) : s[i] = x

IndexOf(s, x) == IF Includes(s, x) THEN CHOOSE i \in 1..Len(s) : s[i] = x /\ \A j \in 1..(i - 1) : s[j] # x ELSE 0

Splice(s, i) == [j \in 1..(Len(s) - 1) |-> IF j < i THEN s[j] ELSE s[j + 1]]

RECURSIVE SumSeq(_)
SumSeq(s) == IF Len(s) = 0 THEN 0 ELSE s[1] + SumSeq(Tail(s))

\* ------------------------------------------------------------ node payloads
\* The payload given to the k-th constructed node and its byte length.
NodeData(k) == IF k % 2 = 1 THEN "a" ELSE "bb"

calculateDataSize(d) == IF d = "a" THEN 1 ELSE 2

Hash(d) == <<"sha256", d>>

\* ------------------------------------------------------------------- state
VARIABLES objs, graph, lastOp, tpc, tstack, tvisited, tprov, targ, texpanded, cb, clock, calls, rt, bs, store, fs

vars == <<objs, graph, lastOp, tpc, tstack, tvisited, tprov, targ, texpanded, cb, clock, calls, rt, bs, store, fs>>

gvars == <<objs, graph, lastOp>>

tvars == <<tpc, tstack, tvisited, tprov, targ, texpanded>>

\* The resilience layer: one circuit breaker, the clock its calls read, and the calls of
\* the breaker that are waiting for the wrapped operation.
rvars == <<cb, clock, calls, rt, bs, store, fs>>

\* The store and the batch call in progress on it, and the simple store.
svars == <<bs, store, fs>>

Callers == 1..MaxCallers

\* const state = { failures: 0, lastFailure: null, state: 'CLOSED' } of a breaker
\* created with the given threshold and timeout.
NoTime == 0 - 1

NewBreaker(threshold, timeout) == [threshold |-> threshold, timeout |-> timeout, failures |-> 0, lastFailure |-> NoTime, state |-> "CLOSED"]

NoCalls == [c \in Callers |-> [pc |-> "idle", trial |-> FALSE]]

\* No withRetry call is in progress.
IdleRetry == [pc |-> "idle", maxRetries |-> DefaultMaxRetries, attempt |-> 0, invoked |-> 0, slept |-> <<>>, log |-> <<>>, lastError |-> "undefined", result |-> "undefined"]

\* No batchStore call is in progress.
IdleBatch == [pc |-> "idle", items |-> <<>>, i |-> 1, pending |-> {}, settled |-> <<>>, results |-> <<>>, before |-> {}]

\* The maps of a new store: the warm cache as entries (cid, data), the deals by their cid,
\* the verification cache as entries (key, valid, timestamp); evicted records the cids
\* whose warm cache entry was deleted or cleared.
EmptyStore == [warmCache |-> {}, storageDeals |-> {}, verificationCache |-> {}, evicted |-> {}, pending |-> {}]

\* The maps of a new simple store: the warm cache as entries (cid, data), the proofs by their cid.
EmptyFs == [warmCache |-> {}, pdpProofs |-> {}]

InitResilience == cb = NewBreaker(DefaultThreshold, DefaultTimeout) /\ clock = 0 /\ calls = NoCalls /\ rt = IdleRetry /\ bs = IdleBatch /\ store = EmptyStore /\ fs = EmptyFs

\* new ProvenanceNode(data, metadata)
NewNode(id, type, tags, day) == [id |-> id, data |-> NodeData(id), nodeType |-> type, dataSize |-> calculateDataSize(NodeData(id)), cid |-> NoCid, storageProof |-> FALSE, verificationHistory |-> <<>>, createdAt |-> day, version |-> 1, tags |-> tags]

\* new ProvChainGraph()
EmptyGraph == [nodes |-> <<>>, edges |-> <<>>, byCid |-> [c \in Cids |-> NoNode], byType |-> [t \in NodeTypes |-> {}], byTimestamp |-> [d \in Days |-> {}], byTags |-> [t \in Tags |-> {}], metrics |-> [totalNodes |-> 0, totalEdges |-> 0, verifiedNodes |-> 0, totalStorage |-> 0]]

Truthy(cid) == cid # NoCid

HasNode(g, id) == Includes(g.nodes, id)

\* Map.set on the nodes map: an existing key keeps its position.
NodesSet(nodes, id) == IF Includes(nodes, id) THEN nodes ELSE Append(nodes, id)

EdgePos(edges, id) == IF \E i \in 1..Len(edges) : edges[i].id = id THEN CHOOSE i \in 1..Len(edges) : edges[i].id = id ELSE 0

\* Map.set on the edges map: an existing key keeps its position, the value is replaced.
EdgesSet(edges, e) == IF EdgePos(edges, e.id) = 0 THEN Append(edges, e) ELSE [edges EXCEPT ![EdgePos(edges, e.id)] = e]

\* updateMetrics()
updateMetrics(nodes, edges, heap) == [totalNodes |-> Len(nodes), totalEdges |-> Len(edges), verifiedNodes |-> Cardinality({i \in 1..Len(nodes) : Truthy(heap[nodes[i]].cid)}), totalStorage |-> SumSeq([i \in 1..Len(nodes) |-> heap[nodes[i]].dataSize])]

\* The index updates of addNode for one node object.
IndexNode(g, node) == [g EXCEPT !.byCid = IF Truthy(node.cid) THEN [@ EXCEPT ![node.cid] = node.id] ELSE @, !.byType = [@ EXCEPT ![node.nodeType] = @ \cup {node.id}], !.byTags = [t \in Tags |-> IF Includes(node.tags, t) THEN @[t] \cup {node.id} ELSE @[t]], !.byTimestamp = [@ EXCEPT ![node.createdAt] = @ \cup {node.id}]]

\* addNode(node) on graph g, the node objects being those of heap.
addNode(g, node, heap) == LET ns == NodesSet(g.nodes, node.id) IN IndexNode([g EXCEPT !.nodes = ns, !.metrics = updateMetrics(ns, g.edges, heap)], node)

EndpointsExistSourceOnly(g, e) == HasNode(g, e.sourceId)

\* The existence check of addEdge.
EndpointsExist(g, e) == HasNode(g, e.sourceId) /\ HasNode(g, e.targetId)

\* addEdge(edge) once the existence check has passed.
addEdge(g, e, heap) == LET es == EdgesSet(g.edges, e) IN [g EXCEPT !.edges = es, !.metrics = updateMetrics(g.nodes, es, heap)]

Init == /\ objs = <<>>
        /\ graph = EmptyGraph
        /\ lastOp = [op |-> "init", ok |-> TRUE, err |-> ""]
        /\ tpc = "idle"
        /\ tstack = <<>>
        /\ tvisited = {}
        /\ tprov = <<>>
        /\ targ = [nodeId |-> NoNode, maxDepth |-> 0]
        /\ texpanded = [n \in NodeIds |-> 0]
        /\ InitResilience

\* new ProvenanceNode(data, metadata): ids are opaque, so the k-th object gets id k.
CreateNode(type, tags, day) == /\ objs' = Append(objs, NewNode(Len(objs) + 1, type, tags, day))
                               /\ lastOp' = [op |-> "createNode", ok |-> TRUE, err |-> "", id |-> Len(objs) + 1]
                               /\ UNCHANGED <<graph, tvars, rvars>>

\* ------------------------------------------------------------ error texts
ErrNotLinked == "Node not linked to Filecoin storage"
ErrProofFailed == "Storage proof verification failed"
ErrStore == "storage.verifyStorageProof threw"
ErrDangling == "Source or target node does not exist"
ErrInvalidNode == "Invalid node type"
ErrInvalidEdge == "Invalid edge type"
ErrTypeError == "TypeError: cannot read properties of undefined"
ErrEdgeMissing == "Source or target node missing for verification"
ErrEdgeProof == "Transformation proof verification failed"
NoErr == ""

\* --------------------------------------------------------------- the nodes
SetObj(heap, id, node) == [heap EXCEPT ![id] = node]

\* linkToFilecoin: the fields are assigned first; building the history entry reads
\* storageProof.deals and raises a TypeError when the proof argument is undefined.
linkToFilecoin(node, cid, proofArg) == LET linked == [node EXCEPT !.cid = cid, !.storageProof = (proofArg = "proof")] IN IF proofArg = "proof" THEN [node |-> [linked EXCEPT !.verificationHistory = Append(@, [action |-> "storage_linked", cid |-> cid, verified |-> TRUE])], ok |-> TRUE, err |-> NoErr] ELSE [node |-> linked, ok |-> FALSE, err |-> ErrTypeError]

LinkToFilecoin(n, cid, proofArg) == /\ n \in 1..Len(objs)
                                    /\ LET r == linkToFilecoin(objs[n], cid, proofArg) IN
                                         /\ objs' = SetObj(objs, n, r.node)
                                         /\ lastOp' = [op |-> "linkToFilecoin", ok |-> r.ok, err |-> r.err, id |-> n, cid |-> cid, before |-> objs[n]]
                                    /\ UNCHANGED <<graph, tvars, rvars>>

\* The guard of verify: both the cid and the proof must be truthy.
IsLinked(node) == Truthy(node.cid) /\ node.storageProof

\* A variant of verify that keeps only the latest entry of the history.
verifyKeepsLatest(node, verdict) == IF ~IsLinked(node) THEN [node |-> node, ok |-> FALSE, err |-> ErrNotLinked, called |-> FALSE] ELSE IF verdict = "throws" THEN [node |-> node, ok |-> FALSE, err |-> ErrStore, called |-> TRUE] ELSE [node |-> [node EXCEPT !.verificationHistory = <<[action |-> "integrity_check", cid |-> node.cid, verified |-> (verdict = "valid")]>>], ok |-> verdict = "valid", err |-> IF verdict = "valid" THEN NoErr ELSE ErrProofFailed, called |-> TRUE]

\* verify(storage), the store answering `verdict` for (cid, data).
verify(node, verdict) == IF ~IsLinked(node) THEN [node |-> node, ok |-> FALSE, err |-> ErrNotLinked, called |-> FALSE] ELSE IF verdict = "throws" THEN [node |-> node, ok |-> FALSE, err |-> ErrStore, called |-> TRUE] ELSE LET n2 == [node EXCEPT !.verificationHistory = Append(@, [action |-> "integrity_check", cid |-> node.cid, verified |-> (verdict = "valid")])] IN IF verdict = "valid" THEN [node |-> n2, ok |-> TRUE, err |-> NoErr, called |-> TRUE] ELSE [node |-> n2, ok |-> FALSE, err |-> ErrProofFailed, called |-> TRUE]

Verify(n, verdict) == /\ n \in 1..Len(objs)
                      /\ LET r == verify(objs[n], verdict) IN
                           /\ objs' = SetObj(objs, n, r.node)
                           /\ lastOp' = [op |-> "verify", ok |-> r.ok, err |-> r.err, id |-> n, verdict |-> verdict, called |-> r.called, before |-> objs[n]]
                      /\ UNCHANGED <<graph, tvars, rvars>>

\* addTag(tag)
addTag(node, tag) == IF ~Includes(node.tags, tag) THEN [node EXCEPT !.tags = Append(@, tag)] ELSE node

\* removeTag(tag)
removeTag(node, tag) == IF IndexOf(node.tags, tag) > 0 THEN [node EXCEPT !.tags = Splice(@, IndexOf(node.tags, tag))] ELSE node

AddTag(n, tag) == /\ n \in 1..Len(objs)
                  /\ objs' = SetObj(objs, n, addTag(objs[n], tag))
                  /\ lastOp' = [op |-> "addTag", ok |-> TRUE, err |-> NoErr, id |-> n]
                  /\ UNCHANGED <<graph, tvars, rvars>>

RemoveTag(n, tag) == /\ n \in 1..Len(objs)
                     /\ objs' = SetObj(objs, n, removeTag(objs[n], tag))
                     /\ lastOp' = [op |-> "removeTag", ok |-> TRUE, err |-> NoErr, id |-> n]
                     /\ UNCHANGED <<graph, tvars, rvars>>

\* --------------------------------------------------------------- the edges
NoProof == <<>>

\* new ProvenanceEdge(sourceId, targetId, relationshipType, transformationProof)
NewEdge(id, s, t, proof) == [id |-> id, sourceId |-> s, targetId |-> t, transformationProof |-> proof, hasTransformation |-> FALSE, verified |-> FALSE]

\* setTransformationDetails(details) with details.inputData and details.outputData given
setTransformationDetails(e, inputData, outputData) == [e EXCEPT !.hasTransformation = TRUE, !.transformationProof = <<Hash(inputData), Hash(outputData)>>]

\* ---------------------------------------------------------- graph mutation
AddNode(n) == /\ n \in 1..Len(objs)
              /\ graph' = addNode(graph, objs[n], objs)
              /\ lastOp' = [op |-> "addNode", ok |-> TRUE, err |-> NoErr, id |-> n, prior |-> IF Truthy(objs[n].cid) THEN graph.byCid[objs[n].cid] ELSE NoNode]
              /\ UNCHANGED <<objs, tvars, rvars>>

AddNodeInvalid == /\ lastOp' = [op |-> "addNode", ok |-> FALSE, err |-> ErrInvalidNode, id |-> NoNode]
                  /\ UNCHANGED <<objs, graph, tvars, rvars>>

AddEdgeSetFirst(e) == /\ graph' = addEdge(graph, e, objs)
                      /\ lastOp' = [op |-> "addEdge", ok |-> EndpointsExist(graph, e), err |-> IF EndpointsExist(graph, e) THEN NoErr ELSE ErrDangling, edge |-> e]
                      /\ UNCHANGED <<objs, tvars, rvars>>

AddEdge(e) == /\ IF EndpointsExist(graph, e) THEN /\ graph' = addEdge(graph, e, objs)
                                                   /\ lastOp' = [op |-> "addEdge", ok |-> TRUE, err |-> NoErr, edge |-> e]
                                              ELSE /\ graph' = graph
                                                   /\ lastOp' = [op |-> "addEdge", ok |-> FALSE, err |-> ErrDangling, edge |-> e]
              /\ UNCHANGED <<objs, tvars, rvars>>

AddEdgeInvalid == /\ lastOp' = [op |-> "addEdge", ok |-> FALSE, err |-> ErrInvalidEdge, edge |-> NewEdge(NoEdge, NoNode, NoNode, NoProof)]
                  /\ UNCHANGED <<objs, graph, tvars, rvars>>

\* ------------------------------------------------------------ export/import
nodeToJSON(node) == [id |-> node.id, data |-> node.data, nodeType |-> node.nodeType, dataSize |-> node.dataSize, cid |-> node.cid, storageProof |-> node.storageProof, verificationHistory |-> node.verificationHistory, createdAt |-> node.createdAt, version |-> node.version, tags |-> node.tags]

edgeToJSON(e) == [id |-> e.id, sourceId |-> e.sourceId, targetId |-> e.targetId, transformationProof |-> e.transformationProof, hasTransformation |-> e.hasTransformation, verified |-> e.verified]

\* exportGraph(): the node and edge snapshots in Map order.
exportGraph(g, heap) == [nodes |-> [i \in 1..Len(g.nodes) |-> nodeToJSON(heap[g.nodes[i]])], edges |-> [i \in 1..Len(g.edges) |-> edgeToJSON(g.edges[i])]]

\* new ProvenanceNode(nodeData.data, nodeData.metadata) followed by Object.assign(node, nodeData)
nodeFromJSON(j) == [NewNode(j.id, j.nodeType, <<>>, j.createdAt) EXCEPT !.data = j.data, !.dataSize = j.dataSize, !.cid = j.cid, !.storageProof = j.storageProof, !.verificationHistory = j.verificationHistory, !.version = j.version, !.tags = j.tags]

\* new ProvenanceEdge(...) followed by Object.assign(edge, edgeData)
edgeFromJSON(j) == [NewEdge(j.id, j.sourceId, j.targetId, j.transformationProof) EXCEPT !.hasTransformation = j.hasTransformation, !.verified = j.verified]

\* The node objects an import creates, by id (later entries of one id win in the map).
ImportedHeap(heap, ns) == [k \in DOMAIN heap |-> IF \E i \in 1..Len(ns) : ns[i].id = k THEN nodeFromJSON(ns[CHOOSE i \in 1..Len(ns) : ns[i].id = k /\ \A j \in (i + 1)..Len(ns) : ns[j].id # k]) ELSE heap[k]]

RECURSIVE importNodes(_, _, _, _)
importNodes(g, ns, i, heap) == IF i > Len(ns) THEN g ELSE importNodes(addNode(g, nodeFromJSON(ns[i]), heap), ns, i + 1, heap)

RECURSIVE importEdges(_, _, _, _)
importEdges(g, es, i, heap) == IF i > Len(es) THEN [g |-> g, ok |-> TRUE, err |-> NoErr] ELSE IF ~EndpointsExist(g, edgeFromJSON(es[i])) THEN [g |-> g, ok |-> FALSE, err |-> ErrDangling] ELSE importEdges(addEdge(g, edgeFromJSON(es[i]), heap), es, i + 1, heap)

\* importGraph(graphData): clears the maps and the indices (not the metrics), then
\* re-adds every node and every edge through addNode and addEdge.
importGraph(g, data, heap) == LET cleared == [EmptyGraph EXCEPT !.metrics = g.metrics] IN importEdges(importNodes(cleared, data.nodes, 1, heap), data.edges, 1, heap)

SelectSeq2(s, keep) == LET F[i \in 0..Len(s)] == IF i = 0 THEN <<>> ELSE IF s[i].id \in keep THEN Append(F[i - 1], s[i]) ELSE F[i - 1] IN F[Len(s)]

\* graph.importGraph(snapshot), the snapshot being this graph's export with only the
\* node entries of `keep` left in it.
ImportGraph(keep) == /\ keep \subseteq Range(graph.nodes)
                     /\ LET ex == exportGraph(graph, objs)
                            data == [nodes |-> SelectSeq2(ex.nodes, keep), edges |-> ex.edges]
                            r == importGraph(graph, data, ImportedHeap(objs, data.nodes))
                        IN /\ graph' = r.g
                           /\ objs' = ImportedHeap(objs, data.nodes)
                           /\ lastOp' = [op |-> "importGraph", ok |-> r.ok, err |-> r.err, keep |-> keep]
                     /\ UNCHANGED <<tvars, rvars>>

\* fresh = new ProvChainGraph(); fresh.importGraph(graph.exportGraph())
RoundTrip == /\ LET ex == exportGraph(graph, objs)
                    r == importGraph(EmptyGraph, ex, ImportedHeap(objs, ex.nodes))
                IN lastOp' = [op |-> "roundTrip", ok |-> r.ok, err |-> r.err, fresh |-> r.g]
             /\ UNCHANGED <<objs, graph, tvars, rvars>>

\* -------------------------------------------------------------- traversal
\* A variant that follows the edges out of nodeId.
getNeighborsOutgoing(g, nodeId) == LET F[i \in 0..Len(g.edges)] == IF i = 0 THEN <<>> ELSE IF g.edges[i].sourceId = nodeId THEN Append(F[i - 1], [node |-> IF HasNode(g, g.edges[i].targetId) THEN g.edges[i].targetId ELSE NoNode, edge |-> g.edges[i].id]) ELSE F[i - 1] IN F[Len(g.edges)]

\* getNeighbors(nodeId, 'incoming'): one entry per edge into nodeId, in Map order;
\* the node of an entry is nodes.get(edge.sourceId).
getNeighborsIncoming(g, nodeId) == LET F[i \in 0..Len(g.edges)] == IF i = 0 THEN <<>> ELSE IF g.edges[i].targetId = nodeId THEN Append(F[i - 1], [node |-> IF HasNode(g, g.edges[i].sourceId) THEN g.edges[i].sourceId ELSE NoNode, edge |-> g.edges[i].id]) ELSE F[i - 1] IN F[Len(g.edges)]

\* The early return of traverse.
ShouldSkipNoVisited(visited, cur, depth, maxDepth) == depth > maxDepth

ShouldSkipDeeper(visited, cur, depth, maxDepth) == cur \in visited \/ depth > maxDepth + 1

ShouldSkip(visited, cur, depth, maxDepth) == cur \in visited \/ depth > maxDepth

Step(cur, edgeId, depth) == [node |-> cur, edge |-> edgeId, depth |-> depth]

Frame(cur, path, depth) == [cur |-> cur, path |-> path, depth |-> depth, pc |-> "enter", inc |-> <<>>, i |-> 0]

Top == tstack[Len(tstack)]

Pop == SubSeq(tstack, 1, Len(tstack) - 1)

IdleTraversal == /\ tpc' = "idle"
                 /\ tstack' = <<>>
                 /\ tvisited' = {}
                 /\ tprov' = <<>>
                 /\ targ' = [nodeId |-> NoNode, maxDepth |-> 0]
                 /\ texpanded' = [n \in NodeIds |-> 0]

\* getProvenance(nodeId, maxDepth): the call, up to traverse(nodeId).
StartProvenance(nodeId, maxDepth) == /\ tpc = "idle"
                                     /\ tpc' = "running"
                                     /\ tstack' = <<Frame(nodeId, <<>>, 0)>>
                                     /\ tvisited' = {}
                                     /\ tprov' = <<>>
                                     /\ targ' = [nodeId |-> nodeId, maxDepth |-> maxDepth]
                                     /\ texpanded' = [n \in NodeIds |-> 0]
                                     /\ lastOp' = [op |-> "getProvenance", ok |-> TRUE, err |-> NoErr]
                                     /\ UNCHANGED <<rvars, objs, graph>>

\* One invocation of traverse, from its entry to its for-loop (or its return).
TraverseEnter == /\ tpc = "running"
                 /\ Len(tstack) > 0
                 /\ Top.pc = "enter"
                 /\ IF ShouldSkip(tvisited, Top.cur, Top.depth, targ.maxDepth)
                    THEN /\ tstack' = Pop
                         /\ UNCHANGED <<tvisited, tprov, texpanded>>
                    ELSE /\ tvisited' = tvisited \cup {Top.cur}
                         /\ IF ~HasNode(graph, Top.cur)
                            THEN /\ tstack' = Pop
                                 /\ UNCHANGED <<tprov, texpanded>>
                            ELSE LET inc == getNeighborsIncoming(graph, Top.cur) IN
                                   /\ texpanded' = [texpanded EXCEPT ![Top.cur] = @ + 1]
                                   /\ IF Len(inc) = 0
                                      THEN /\ tprov' = Append(tprov, Append(Top.path, Step(Top.cur, NoEdge, Top.depth)))
                                           /\ tstack' = Pop
                                      ELSE /\ tprov' = tprov
                                           /\ tstack' = [tstack EXCEPT ![Len(tstack)] = [@ EXCEPT !.pc = "loop", !.inc = inc, !.i = 1]]
                 /\ UNCHANGED <<rvars, objs, graph, lastOp, tpc, targ>>

\* One iteration of the for-loop over the incoming edges: the recursive call, or the
\* return at the end of the loop.
TraverseLoop == /\ tpc = "running"
                /\ Len(tstack) > 0
                /\ Top.pc = "loop"
                /\ IF Top.i > Len(Top.inc)
                   THEN tstack' = Pop
                   ELSE tstack' = Append([tstack EXCEPT ![Len(tstack)] = [@ EXCEPT !.i = @ + 1]], Frame(Top.inc[Top.i].node, Append(Top.path, Step(Top.cur, Top.inc[Top.i].edge, Top.depth)), Top.depth + 1))
                /\ UNCHANGED <<rvars, objs, graph, lastOp, tpc, tvisited, tprov, targ, texpanded>>

\* return provenance
FinishProvenance == /\ tpc = "running"
                    /\ Len(tstack) = 0
                    /\ tpc' = "done"
                    /\ UNCHANGED <<rvars, objs, graph, lastOp, tstack, tvisited, tprov, targ, texpanded>>

\* The caller is done with the returned paths.
DropResult == /\ tpc = "done"
              /\ IdleTraversal
              /\ UNCHANGED <<rvars, objs, graph, lastOp>>

\* getProvenance(nodeId, maxDepth) as one call: traverse threads the visited set and
\* the collected paths through its recursive calls, in the order of the incoming edges.
RECURSIVE traverse(_, _, _, _, _, _)
traverse(g, st, cur, path, depth, maxDepth) == IF ShouldSkip(st.visited, cur, depth, maxDepth) THEN st ELSE LET st1 == [st EXCEPT !.visited = @ \cup {cur}] inc == getNeighborsIncoming(g, cur) F[i \in 0..Len(inc)] == IF i = 0 THEN st1 ELSE traverse(g, F[i - 1], inc[i].node, Append(path, Step(cur, inc[i].edge, depth)), depth + 1, maxDepth) IN IF ~HasNode(g, cur) THEN st1 ELSE IF Len(inc) = 0 THEN [st1 EXCEPT !.provenance = Append(@, Append(path, Step(cur, NoEdge, depth)))] ELSE F[Len(inc)]

getProvenance(g, nodeId, maxDepth) == traverse(g, [visited |-> {}, provenance |-> <<>>], nodeId, <<>>, 0, maxDepth).provenance

\* ------------------------------------------------------------ verification
\* edge.verify(sourceNode, targetNode); srcOk and tgtOk tell whether nodes.get found them.
edgeVerify(e, srcOk, tgtOk, srcData, tgtData) == IF ~srcOk \/ ~tgtOk THEN [edge |-> [e EXCEPT !.verified = FALSE], ok |-> FALSE, err |-> ErrEdgeMissing] ELSE IF e.transformationProof # NoProof /\ e.hasTransformation /\ (e.transformationProof[1] # Hash(srcData) \/ e.transformationProof[2] # Hash(tgtData)) THEN [edge |-> [e EXCEPT !.verified = FALSE], ok |-> FALSE, err |-> ErrEdgeProof] ELSE [edge |-> [e EXCEPT !.verified = TRUE], ok |-> TRUE, err |-> NoErr]

\* A variant that calls node.verify for every node, with or without a cid.
NodeIsCheckedAlways(node) == TRUE

\* Whether verifyProvenance calls node.verify for the node of a step.
NodeIsChecked(node) == Truthy(node.cid)

\* The try block of verifyProvenance for one step: node.verify when the node has a
\* cid, then edge.verify when the step has an edge; the first throw ends the block.
verifyStep(g, heap, edges, step, vf) == LET node == heap[step.node] nr == IF NodeIsChecked(node) THEN verify(node, vf[<<node.cid, node.data>>]) ELSE [node |-> node, ok |-> TRUE, err |-> NoErr, called |-> FALSE] heap1 == SetObj(heap, step.node, nr.node) IN IF ~nr.ok THEN [heap |-> heap1, edges |-> edges, ok |-> FALSE, err |-> nr.err] ELSE IF step.edge = NoEdge THEN [heap |-> heap1, edges |-> edges, ok |-> TRUE, err |-> NoErr] ELSE LET pos == EdgePos(edges, step.edge) e == edges[pos] er == edgeVerify(e, HasNode(g, e.sourceId), HasNode(g, e.targetId), heap[e.sourceId].data, heap[e.targetId].data) IN [heap |-> heap1, edges |-> [edges EXCEPT ![pos] = er.edge], ok |-> er.ok, err |-> er.err]

\* The loop over the steps of one path.  `tried` counts the steps whose try block ran.
verifyPathAbort(g, heap, edges, path, vf) == LET F[i \in 0..Len(path)] == IF i = 0 THEN [heap |-> heap, edges |-> edges, valid |-> TRUE, errors |-> <<>>, tried |-> 0] ELSE IF ~F[i - 1].valid THEN F[i - 1] ELSE LET r == verifyStep(g, F[i - 1].heap, F[i - 1].edges, path[i], vf) IN [heap |-> r.heap, edges |-> r.edges, valid |-> F[i - 1].valid /\ r.ok, errors |-> IF r.ok THEN F[i - 1].errors ELSE Append(F[i - 1].errors, [nodeId |-> path[i].node, edgeId |-> path[i].edge, error |-> r.err]), tried |-> F[i - 1].tried + 1] IN F[Len(path)]

verifyPath(g, heap, edges, path, vf) == LET F[i \in 0..Len(path)] == IF i = 0 THEN [heap |-> heap, edges |-> edges, valid |-> TRUE, errors |-> <<>>, tried |-> 0] ELSE LET r == verifyStep(g, F[i - 1].heap, F[i - 1].edges, path[i], vf) IN [heap |-> r.heap, edges |-> r.edges, valid |-> F[i - 1].valid /\ r.ok, errors |-> IF r.ok THEN F[i - 1].errors ELSE Append(F[i - 1].errors, [nodeId |-> path[i].node, edgeId |-> path[i].edge, error |-> r.err]), tried |-> F[i - 1].tried + 1] IN F[Len(path)]

\* verifyProvenance(nodeId, storage): the loop over the paths of getProvenance(nodeId).
verifyProvenance(g, heap, nodeId, vf) == LET prov == getProvenance(g, nodeId, DefaultMaxDepth) F[k \in 0..Len(prov)] == IF k = 0 THEN [heap |-> heap, edges |-> g.edges, results |-> <<>>] ELSE LET r == verifyPath(g, F[k - 1].heap, F[k - 1].edges, prov[k], vf) IN [heap |-> r.heap, edges |-> r.edges, results |-> Append(F[k - 1].results, [path |-> prov[k], valid |-> r.valid, errors |-> r.errors, tried |-> r.tried])] IN F[Len(prov)]

VerifyProvenance(nodeId, vf) == /\ LET r == verifyProvenance(graph, objs, nodeId, vf) IN
                                     /\ objs' = r.heap
                                     /\ graph' = [graph EXCEPT !.edges = r.edges]
                                     /\ lastOp' = [op |-> "verifyProvenance", ok |-> TRUE, err |-> NoErr, id |-> nodeId, vf |-> vf, results |-> r.results]
                                /\ UNCHANGED <<tvars, rvars>>

\* ------------------------------------------------------------------ inputs
TagLists == {<<>>} \cup {<<t>> : t \in Tags}

\* The id of a new edge: a fresh one, or that of an edge created in the same
\* millisecond with the same endpoints and relationship type.
EdgeIdsFor(g, s, t) == {Len(g.edges) + 1} \cup {g.edges[i].id : i \in {j \in 1..Len(g.edges) : g.edges[j].sourceId = s /\ g.edges[j].targetId = t}}

PlainEdges(g, maxEdges) == {e \in {NewEdge(id, s, t, NoProof) : id \in 1..maxEdges, s \in NodeIds, t \in NodeIds} : e.id \in EdgeIdsFor(g, e.sourceId, e.targetId)}

HistRoom(n) == n \in 1..Len(objs) /\ Len(objs[n].verificationHistory) < MaxHist

\* ------------------------------------------- the graph and its two maps (Spec)
Next == \/ \E ty \in NodeTypes, d \in Days : Len(objs) < MaxNodes /\ CreateNode(ty, <<>>, d)
        \/ \E n \in NodeIds : AddNode(n)
        \/ AddNodeInvalid
        \/ \E e \in PlainEdges(graph, MaxEdges) : AddEdge(e)
        \/ AddEdgeInvalid
        \/ \E keep \in SUBSET NodeIds : ImportGraph(keep)

Spec == Init /\ [][Next]_vars

\* --------------------------------------------------------- query (SpecQuery)
\* A filter field that the query does not give.
Undefined == "undefined"

\* The day of a date key as a number, for the comparisons of date keys.
DayNo(d) == IF d = "2024-01-01" THEN 2 ELSE 0

\* getNodeByCid(cid): the node the cid index has for cid, or none.
getNodeByCid(g, cid) == IF cid \in DOMAIN g.byCid THEN g.byCid[cid] ELSE NoNode

\* getNodesByType(type)
getNodesByType(g, type) == IF type \in DOMAIN g.byType THEN g.byType[type] ELSE {}

\* getNodesByTag(tag)
getNodesByTag(g, tag) == IF tag \in DOMAIN g.byTags THEN g.byTags[tag] ELSE {}

\* getNodesByDateRange(start, end)
getNodesByDateRange(g, start, end) == UNION {g.byTimestamp[d] : d \in {k \in DOMAIN g.byTimestamp : DayNo(k) >= start /\ DayNo(k) <= end}}

\* A variant of the selection that looks at the node type before the cid.
selectTypeFirst(g, q) == IF q.nodeType # Undefined THEN getNodesByType(g, q.nodeType) ELSE IF q.cid # Undefined THEN {getNodeByCid(g, q.cid)} \ {NoNode} ELSE IF q.hasTags /\ Len(q.tags) > 0 THEN UNION {getNodesByTag(g, q.tags[k]) : k \in 1..Len(q.tags)} ELSE IF q.hasRange THEN getNodesByDateRange(g, q.start, q.end) ELSE Range(g.nodes)

\* The if / else if chain of query: the nodes of the first selector the filter gives.
select(g, q) == IF q.cid # Undefined THEN {getNodeByCid(g, q.cid)} \ {NoNode} ELSE IF q.nodeType # Undefined THEN getNodesByType(g, q.nodeType) ELSE IF q.hasTags /\ Len(q.tags) > 0 THEN UNION {getNodesByTag(g, q.tags[k]) : k \in 1..Len(q.tags)} ELSE IF q.hasRange THEN getNodesByDateRange(g, q.start, q.end) ELSE Range(g.nodes)

\* results.filter(node => !!node.cid === verified) when verified is a boolean
filterVerified(ids, heap, verified) == IF verified = Undefined THEN ids ELSE {id \in ids : Truthy(heap[id].cid) = (verified = "true")}

\* a[sortBy], as a number
SortKey(node, sortBy) == IF sortBy = "createdAt" THEN DayNo(node.createdAt) ELSE node.id

\* The comparator puts a before b when it is not the case that b's key is beyond a's.
InOrder(a, b, sortBy, sortOrder) == IF sortOrder = "desc" THEN SortKey(a, sortBy) >= SortKey(b, sortBy) ELSE SortKey(a, sortBy) <= SortKey(b, sortBy)

\* The arrangements results.sort can produce: the comparator never answers 0, so the
\* order of nodes with equal keys is the engine's.
sortResults(ids, heap, sortBy, sortOrder) == {f \in [1..Cardinality(ids) -> ids] : (\A i, j \in 1..Cardinality(ids) : (i # j => f[i] # f[j]) /\ (i < j => InOrder(heap[f[i]], heap[f[j]], sortBy, sortOrder)))}

\* results.slice(offset, offset + limit)
slice(seq, offset, limit) == [k \in 1..(IF Len(seq) - offset < limit THEN (IF Len(seq) - offset < 0 THEN 0 ELSE Len(seq) - offset) ELSE limit) |-> seq[offset + k]]

\* { ...node.toJSON(), verified: !!node.cid }
queryEntry(node) == [id |-> node.id, cid |-> node.cid, tags |-> node.tags, nodeType |-> node.nodeType, verified |-> Truthy(node.cid)]

\* query(q): the results the call can return.
query(g, heap, q) == {[k \in 1..Len(slice(f, q.offset, q.limit)) |-> queryEntry(heap[slice(f, q.offset, q.limit)[k]])] : f \in sortResults(filterVerified(select(g, q), heap, q.verified), heap, q.sortBy, q.sortOrder)}

\* The filters of the queries made: a cid, a type, tags and a date range, each given or
\* not; a query is made after a change of the nodes or of the graph.
Queries == [cid : {Undefined, "c1"}, nodeType : {Undefined, "dataset"}, hasTags : BOOLEAN, tags : {<<>>, <<"t1", "t9">>}, hasRange : BOOLEAN, start : {1, 3}, end : {3}, verified : {Undefined, "true", "false"}, limit : 1..MaxLimit, offset : 0..MaxOffset, sortBy : {"createdAt", "id"}, sortOrder : {"desc", "asc"}]

Query(q) == /\ \E res \in query(graph, objs, q) : lastOp' = [op |-> "query", ok |-> TRUE, err |-> NoErr, q |-> q, results |-> res]
            /\ UNCHANGED <<objs, graph, tvars, rvars>>

NextQuery == \/ \E tg \in TagLists, d \in Days : Len(objs) < QueryNodes /\ CreateNode("dataset", tg, d)
             \/ \E n \in NodeIds, c \in Cids : n \in 1..Len(objs) /\ Len(objs[n].verificationHistory) < 1 /\ LinkToFilecoin(n, c, "proof")
             \/ \E n \in NodeIds : AddNode(n)
             \/ lastOp.op # "query" /\ \E q \in Queries : (q.hasTags \/ q.tags = <<>>) /\ (q.hasRange \/ q.start = 1) /\ (q.sortOrder = "desc" \/ q.sortBy = "id") /\ Query(q)

SpecQuery == Init /\ [][NextQuery]_vars

\* ------------------------------------ the indices and the snapshot (SpecIndex)
NextIndex == \/ \E ty \in NodeTypes, tg \in TagLists, d \in Days : Len(objs) < IndexNodes /\ CreateNode(ty, tg, d)
             \/ \E n \in NodeIds, c \in IndexCids, p \in ProofArgs : HistRoom(n) /\ LinkToFilecoin(n, c, p)
             \/ \E n \in NodeIds, t \in Tags : AddTag(n, t)
             \/ \E n \in NodeIds, t \in Tags : RemoveTag(n, t)
             \/ \E n \in NodeIds : AddNode(n)
             \/ \E e \in PlainEdges(graph, IndexEdges) : AddEdge(e)
             \/ RoundTrip

SpecIndex == Init /\ [][NextIndex]_vars

\* ------------------------------------------- getGraphMetrics (SpecMetrics)
\* The counters getGraphMetrics spreads into its result: ...this.metrics.
getGraphMetrics(g) == g.metrics

NextMetrics == \/ \E ty \in NodeTypes, d \in Days : Len(objs) < IndexNodes /\ CreateNode(ty, <<>>, d)
               \/ \E n \in NodeIds, c \in IndexCids, p \in ProofArgs : HistRoom(n) /\ LinkToFilecoin(n, c, p)
               \/ \E n \in NodeIds : AddNode(n)
               \/ \E e \in PlainEdges(graph, IndexEdges) : AddEdge(e)
               \/ \E keep \in SUBSET NodeIds : ImportGraph(keep)

SpecMetrics == Init /\ [][NextMetrics]_vars

\* ------------------------------------------ linking and verifying (SpecLink)
LinkRoom(n) == n \in 1..Len(objs) /\ Len(objs[n].verificationHistory) < LinkHist

NextLink == \/ \E ty \in NodeTypes, d \in Days : Len(objs) < LinkNodes /\ CreateNode(ty, <<>>, d)
            \/ \E n \in NodeIds, c \in Cids, p \in ProofArgs : LinkRoom(n) /\ LinkToFilecoin(n, c, p)
            \/ \E n \in NodeIds, v \in Verdicts : LinkRoom(n) /\ Verify(n, v)

SpecLink == Init /\ [][NextLink]_vars

\* ----------------------------------------------- getProvenance (SpecTraverse)
FreshEdges(g) == {NewEdge(Len(g.edges) + 1, s, t, NoProof) : s \in Range(g.nodes), t \in Range(g.nodes)}

Traverse == TraverseEnter \/ TraverseLoop \/ FinishProvenance

NextTraverse == \/ \E ty \in NodeTypes, d \in Days : tpc = "idle" /\ Len(objs) < MaxNodes /\ Len(objs) = Len(graph.nodes) /\ CreateNode(ty, <<>>, d)
                \/ tpc = "idle" /\ Len(graph.nodes) < Len(objs) /\ AddNode(Len(graph.nodes) + 1)
                \/ \E e \in FreshEdges(graph) : tpc = "idle" /\ Len(graph.edges) < MaxEdges /\ AddEdge(e)
                \/ \E id \in NodeIds, md \in 0..MaxDepth : StartProvenance(id, md)
                \/ TraverseEnter
                \/ TraverseLoop
                \/ FinishProvenance
                \/ DropResult

SpecTraverse == Init /\ [][NextTraverse]_vars /\ WF_vars(Traverse)

\* ------------------------------------------------ edge.verify (SpecEdge)
\* The proofs given to the constructor of an edge: none, or the hashes of an input and an output.
CtorProofs == {NoProof} \cup {<<Hash(i), Hash(o)>> : i \in {"a", "bb"}, o \in {"a", "bb"}}

\* Edges as constructed, with or without a call of setTransformationDetails, verified
\* before or not.
EdgesToVerify == LET made == {NewEdge(1, 1, 2, p) : p \in CtorProofs} \cup {setTransformationDetails(NewEdge(1, 1, 2, NoProof), i, o) : i \in {"a", "bb"}, o \in {"a", "bb"}} IN made \cup {[e EXCEPT !.verified = TRUE] : e \in made}

\* edge.verify(sourceNode, targetNode); a node that is absent has no data.
EdgeVerify(e, srcOk, tgtOk, srcData, tgtData) == /\ LET r == edgeVerify(e, srcOk, tgtOk, srcData, tgtData) IN lastOp' = [op |-> "edgeVerify", ok |-> r.ok, err |-> r.err, edge |-> e, after |-> r.edge, srcOk |-> srcOk, tgtOk |-> tgtOk, srcData |-> srcData, tgtData |-> tgtData]
                                                 /\ UNCHANGED <<objs, graph, tvars, rvars>>

NextEdge == \E e \in EdgesToVerify, srcOk \in BOOLEAN, tgtOk \in BOOLEAN, srcData \in {"a", "bb"}, tgtData \in {"a", "bb"} : EdgeVerify(e, srcOk, tgtOk, srcData, tgtData)

SpecEdge == Init /\ [][NextEdge]_vars

\* ------------------------------------ verify and verifyProvenance (SpecVerify)
DataSet == {"a", "bb"}

VerifyCids == {"c1"}

\* What storage.verifyStorageProof(cid, data) answers during one call of the caller.
VerdictFns == [VerifyCids \X DataSet -> Verdicts]

VerifyEdges(g) == {NewEdge(Len(g.edges) + 1, s, t, NoProof) : s \in Range(g.nodes), t \in Range(g.nodes)} \cup {setTransformationDetails(NewEdge(Len(g.edges) + 1, s, t, NoProof), "a", "bb") : s \in Range(g.nodes), t \in Range(g.nodes)}

\* The link states a constructed node can be in before it is added: never linked,
\* linked, or left with a cid and no proof by a linkToFilecoin that raised.
LinkStates == {"unlinked", "linked", "cidOnly"}

LinkedAs(node, how, cid) == IF how = "unlinked" THEN node ELSE linkToFilecoin(node, cid, IF how = "linked" THEN "proof" ELSE "undefined").node

HeapOf(hows, cid) == [k \in NodeIds |-> LinkedAs(NewNode(k, "dataset", <<>>, "2024-01-01"), hows[k], cid)]

RECURSIVE addNodes(_, _, _)
addNodes(g, heap, k) == IF k > Len(heap) THEN g ELSE addNodes(addNode(g, heap[k], heap), heap, k + 1)

\* MaxNodes nodes were constructed, some linked, and added to a new graph in order.
InitVerify == /\ \E hows \in [NodeIds -> LinkStates] : objs = HeapOf(hows, "c1") /\ graph = addNodes(EmptyGraph, HeapOf(hows, "c1"), 1)
              /\ lastOp = [op |-> "init", ok |-> TRUE, err |-> NoErr]
              /\ tpc = "idle"
              /\ tstack = <<>>
              /\ tvisited = {}
              /\ tprov = <<>>
              /\ targ = [nodeId |-> NoNode, maxDepth |-> 0]
              /\ texpanded = [n \in NodeIds |-> 0]
              /\ InitResilience

\* A run builds the edges and ends with one verification call.
Building == lastOp.op \in {"init", "addEdge"}

NextVerify == \/ \E e \in VerifyEdges(graph) : Building /\ Len(graph.edges) < VerifyMaxEdges /\ e.sourceId # e.targetId /\ AddEdge(e)
              \/ \E n \in NodeIds, v \in Verdicts : Building /\ Verify(n, v)
              \/ \E id \in 1..(MaxNodes + 1), vf \in VerdictFns : Building /\ VerifyProvenance(id, vf)

SpecVerify == InitVerify /\ [][NextVerify]_vars

\* ------------------------------------- the circuit breaker (SpecBreaker)
ErrResource == "RESOURCE_ERROR"

\* The errors the wrapped operation raises.
OpErrors == {"NETWORK_ERROR", "VALIDATION_ERROR"}

\* The circuit is open and the timeout has not passed since the last failure.
IsRejecting(b, t) == b.state = "OPEN" /\ t - b.lastFailure < b.timeout

\* The breaker before the wrapped operation is invoked.
breakerEnter(b, t) == IF b.state = "OPEN" /\ ~IsRejecting(b, t) THEN [b EXCEPT !.state = "HALF_OPEN"] ELSE b

\* A variant that resets the failure count on every success.
breakerSuccessResets(b) == IF b.state = "HALF_OPEN" THEN [b EXCEPT !.state = "CLOSED", !.failures = 0] ELSE [b EXCEPT !.failures = 0]

\* The breaker after the wrapped operation returned.
breakerSuccess(b) == IF b.state = "HALF_OPEN" THEN [b EXCEPT !.state = "CLOSED", !.failures = 0] ELSE b

\* A variant that opens the circuit one failure late.
breakerFailureLate(b, t) == [b EXCEPT !.failures = b.failures + 1, !.lastFailure = t, !.state = IF b.failures + 1 > b.threshold THEN "OPEN" ELSE @]

\* A variant that does not record the time of the failure.
breakerFailureNoRefresh(b, t) == [b EXCEPT !.failures = b.failures + 1, !.state = IF b.failures + 1 >= b.threshold THEN "OPEN" ELSE @]

\* The breaker after the wrapped operation raised, at time t.
breakerFailure(b, t) == [b EXCEPT !.failures = b.failures + 1, !.lastFailure = t, !.state = IF b.failures + 1 >= b.threshold THEN "OPEN" ELSE @]

\* A call of the breaker up to `await operation()`: rejected, or the operation is invoked.
BreakerCall(c) == /\ calls[c].pc = "idle"
                  /\ IF IsRejecting(cb, clock)
                     THEN /\ lastOp' = [op |-> "breakerCall", ok |-> FALSE, err |-> ErrResource, caller |-> c, invoked |-> FALSE, at |-> clock, before |-> cb]
                          /\ UNCHANGED <<cb, calls>>
                     ELSE /\ cb' = breakerEnter(cb, clock)
                          /\ calls' = [calls EXCEPT ![c] = [pc |-> "awaiting", trial |-> (cb.state = "OPEN")]]
                          /\ lastOp' = [op |-> "breakerCall", ok |-> TRUE, err |-> NoErr, caller |-> c, invoked |-> TRUE, at |-> clock, before |-> cb]
                  /\ UNCHANGED <<objs, graph, tvars, clock, rt, svars>>

\* The wrapped operation of call c returned: the rest of the try block.
BreakerReturn(c) == /\ calls[c].pc = "awaiting"
                    /\ cb' = breakerSuccess(cb)
                    /\ calls' = [calls EXCEPT ![c] = [pc |-> "idle", trial |-> FALSE]]
                    /\ lastOp' = [op |-> "breakerReturn", ok |-> TRUE, err |-> NoErr, caller |-> c, trial |-> calls[c].trial, at |-> clock, before |-> cb]
                    /\ UNCHANGED <<objs, graph, tvars, clock, rt, svars>>

\* The wrapped operation of call c raised e: the catch block, which rethrows e.
BreakerThrow(c, e) == /\ calls[c].pc = "awaiting"
                      /\ cb' = breakerFailure(cb, clock)
                      /\ calls' = [calls EXCEPT ![c] = [pc |-> "idle", trial |-> FALSE]]
                      /\ lastOp' = [op |-> "breakerThrow", ok |-> FALSE, err |-> e, thrown |-> e, caller |-> c, trial |-> calls[c].trial, at |-> clock, before |-> cb]
                      /\ UNCHANGED <<objs, graph, tvars, clock, rt, svars>>

\* Date.now() advances.
Tick == /\ clock' = clock + 1
        /\ UNCHANGED <<gvars, tvars, cb, calls, rt, svars>>

\* A breaker was created with a threshold and a timeout; no call was made yet.
InitBreaker == /\ objs = <<>>
               /\ graph = EmptyGraph
               /\ lastOp = [op |-> "init", ok |-> TRUE, err |-> NoErr]
               /\ tpc = "idle"
               /\ tstack = <<>>
               /\ tvisited = {}
               /\ tprov = <<>>
               /\ targ = [nodeId |-> NoNode, maxDepth |-> 0]
               /\ texpanded = [n \in NodeIds |-> 0]
               /\ \E th \in 1..MaxThreshold, to \in 1..MaxTimeout : cb = NewBreaker(th, to)
               /\ clock = 0
               /\ calls = NoCalls
               /\ rt = IdleRetry
               /\ bs = IdleBatch
               /\ store = EmptyStore
               /\ fs = EmptyFs

NextBreaker == \/ \E c \in Callers : BreakerCall(c)
               \/ \E c \in Callers : BreakerReturn(c)
               \/ \E c \in Callers, e \in OpErrors : cb.failures < MaxFailures /\ BreakerThrow(c, e)
               \/ clock < MaxTime /\ Tick

SpecBreaker == InitBreaker /\ [][NextBreaker]_vars

\* ------------------------------------------------ withRetry (SpecRetry)
ErrorTypes == {"STORAGE_ERROR", "VERIFICATION_ERROR", "NETWORK_ERROR", "VALIDATION_ERROR", "AUTHENTICATION_ERROR", "RATE_LIMIT_ERROR", "RESOURCE_ERROR", "INTERNAL_ERROR"}

\* A variant that also retries verification failures.
isRetryableAlsoVerification(type) == type \in {"NETWORK_ERROR", "RATE_LIMIT_ERROR", "STORAGE_ERROR", "VERIFICATION_ERROR"}

\* ProvChainError.isRetryable
isRetryable(type) == type \in {"NETWORK_ERROR", "RATE_LIMIT_ERROR", "STORAGE_ERROR"}

\* new ProvChainError(message, type): retryable is computed at construction. A message
\* is the set of the keywords of classifyError that it contains.
ProvChainError(message, type) == [prov |-> TRUE, type |-> type, message |-> message, retryable |-> isRetryable(type)]

\* An error that is not a ProvChainError.
PlainError(message) == [prov |-> FALSE, type |-> "undefined", message |-> message, retryable |-> FALSE]

HasAny(message, keywords) == message \cap keywords # {}

\* classifyError: the first group of keywords the message contains decides the class.
classifyError(error) == IF HasAny(error.message, {"network", "timeout", "connection", "ECONNREFUSED", "ENOTFOUND"}) THEN ProvChainError(error.message, "NETWORK_ERROR") ELSE IF HasAny(error.message, {"storage", "filecoin", "lighthouse", "CID", "IPFS"}) THEN ProvChainError(error.message, "STORAGE_ERROR") ELSE IF HasAny(error.message, {"verification", "proof", "integrity", "signature"}) THEN ProvChainError(error.message, "VERIFICATION_ERROR") ELSE IF HasAny(error.message, {"rate limit", "429", "too many requests"}) THEN ProvChainError(error.message, "RATE_LIMIT_ERROR") ELSE IF HasAny(error.message, {"invalid", "validation", "required", "format"}) THEN ProvChainError(error.message, "VALIDATION_ERROR") ELSE ProvChainError(error.message, "INTERNAL_ERROR")

Messages == {{}, {"timeout"}, {"storage"}, {"proof"}, {"429"}, {"invalid"}, {"proof", "storage"}}

\* What an operation can raise: a ProvChainError of any type, or another error.
ThrownErrors == {ProvChainError({}, t) : t \in ErrorTypes} \cup {PlainError(m) : m \in Messages}

Values == {"r1", "r2"}

RECURSIVE Pow(_, _)
Pow(b, n) == IF n = 0 THEN 1 ELSE b * Pow(b, n - 1)

Min(a, b) == IF a < b THEN a ELSE b

\* The backoff delay before the retry that follows attempt `attempt`.
retryDelay(attempt) == Min(DefaultBaseDelay * Pow(DefaultBackoffMultiplier, attempt), DefaultMaxDelay)

\* The error withRetry keeps for a raised error.
Classified(error) == IF error.prov THEN error ELSE classifyError(error)

\* A variant of the catch block that goes to the next attempt without sleeping.
afterFailureNoSleep(r, error) == LET e == Classified(error) IN IF ~e.retryable \/ r.attempt = r.maxRetries THEN [r EXCEPT !.pc = "raised", !.lastError = e, !.log = Append(@, e)] ELSE [r EXCEPT !.pc = "sleeping", !.lastError = e, !.log = Append(@, e)]

\* The catch block of withRetry: classify, log, then give up or sleep.
afterFailure(r, error) == LET e == Classified(error) IN IF ~e.retryable \/ r.attempt = r.maxRetries THEN [r EXCEPT !.pc = "raised", !.lastError = e, !.log = Append(@, e)] ELSE [r EXCEPT !.pc = "sleeping", !.lastError = e, !.log = Append(@, e), !.slept = Append(@, retryDelay(r.attempt))]

\* withRetry(operation, context, {maxRetries}) up to its first await operation().
StartRetry(maxRetries) == /\ rt.pc = "idle"
                          /\ rt' = [IdleRetry EXCEPT !.pc = "awaiting", !.maxRetries = maxRetries, !.invoked = 1]
                          /\ UNCHANGED <<gvars, tvars, cb, clock, calls, svars>>

\* The operation returned v: withRetry returns it.
RetryOpReturns(v) == /\ rt.pc = "awaiting"
                     /\ rt' = [rt EXCEPT !.pc = "returned", !.result = v]
                     /\ UNCHANGED <<gvars, tvars, cb, clock, calls, svars>>

\* The operation raised.
RetryOpRaises(error) == /\ rt.pc = "awaiting"
                        /\ rt' = afterFailure(rt, error)
                        /\ UNCHANGED <<gvars, tvars, cb, clock, calls, svars>>

\* The sleep is over: the loop goes to the next attempt and invokes the operation.
RetryWakes == /\ rt.pc = "sleeping"
              /\ rt' = [rt EXCEPT !.pc = "awaiting", !.attempt = @ + 1, !.invoked = @ + 1]
              /\ UNCHANGED <<gvars, tvars, cb, clock, calls, svars>>

\* The caller has the outcome of the call.
RetryDone == /\ rt.pc \in {"returned", "raised"}
             /\ rt' = IdleRetry
             /\ UNCHANGED <<gvars, tvars, cb, clock, calls, svars>>

NextRetry == \/ \E m \in 0..MaxRetries : StartRetry(m)
             \/ \E v \in Values : RetryOpReturns(v)
             \/ \E e \in ThrownErrors : RetryOpRaises(e)
             \/ RetryWakes
             \/ RetryDone

SpecRetry == Init /\ [][NextRetry]_vars

\* The operation awaited never settles: withRetry has no timer of its own on it.
RetryOpHangs == /\ rt.pc = "awaiting"
                /\ rt' = [rt EXCEPT !.pc = "hung"]
                /\ UNCHANGED <<gvars, tvars, cb, clock, calls, svars>>

NextRetryLive == \/ NextRetry
                 \/ RetryOpHangs

\* Every step that can be taken is taken in the end: timers fire, an operation that
\* will settle settles, and the caller takes the outcome.
SpecRetryLive == Init /\ [][NextRetryLive]_vars /\ WF_vars(NextRetryLive)

\* ------------------------------------------------ batchStore (SpecBatch)
\* The data of a batch item; hashing an item without data raises a TypeError.
ItemData == {"a", "bb", "undefined"}

ErrHashUndefined == "TypeError: the data argument must be of type string"

\* The metadata of a store call; a call without metadata has the default {}.
EmptyMetadata == "{}"

Metadatas == {EmptyMetadata, "{type: test}"}

\* The payloads stored: one byte, exactly the warm storage threshold, one byte more.
Payloads == {"a", "edge", "big"}

\* `Simulated data for CID: ${cid}`
SimulatedData == "Simulated data for CID"

\* getDataSize: Buffer.byteLength of the data.
getDataSize(data) == IF data = "a" THEN 1 ELSE IF data = "bb" THEN 2 ELSE IF data = "edge" THEN WarmStorageThreshold ELSE IF data = "big" THEN WarmStorageThreshold + 1 ELSE 81

\* generateContentHash: sha256 of the data.
generateContentHash(data) == <<"sha256", data>>

\* simulateStorage: the cid is a hash of the data, the metadata and Date.now().
simulateStorageCid(data, metadata, t) == <<"bafk2bzaced", data, metadata, t>>

\* The cid of data stored without metadata at time t.
MockCid(data, t) == simulateStorageCid(data, EmptyMetadata, t)

\* The payload a cid made by store was computed from.
PayloadOf(cid) == cid[2]

\* Map.set on the warm cache.
CachePut(cache, cid, data) == {e \in cache : e.cid # cid} \cup {[cid |-> cid, data |-> data]}

CacheHas(cache, cid) == \E e \in cache : e.cid = cid

CacheGet(cache, cid) == (CHOOSE e \in cache : e.cid = cid).data

\* store(data, metadata) at time t on the store st.
storeData(st, data, metadata, t) == IF data = "undefined" THEN [ok |-> FALSE, cid |-> NoCid, err |-> ErrHashUndefined, store |-> st] ELSE [ok |-> TRUE, cid |-> simulateStorageCid(data, metadata, t), err |-> NoErr, store |-> [st EXCEPT !.warmCache = IF getDataSize(data) <= WarmStorageThreshold THEN CachePut(@, simulateStorageCid(data, metadata, t), data) ELSE @, !.storageDeals = @ \cup {simulateStorageCid(data, metadata, t)}]]

\* A variant of the item callback that reports a failed item as stored.
batchItemSwallow(r) == [success |-> TRUE, cid |-> r.cid, error |-> NoErr]

\* The callback batchStore maps over a wave: the result of one item, from the outcome r of store.
batchItem(r) == IF r.ok THEN [success |-> TRUE, cid |-> r.cid, error |-> NoErr] ELSE [success |-> FALSE, cid |-> NoCid, error |-> r.err]

\* A null in the list of items: reading its data raises in the callback and again in the
\* callback's catch, so the callback's promise is rejected.
NullItem == [data |-> "null item"]

NoValue == [success |-> FALSE, cid |-> NoCid, error |-> "undefined"]

ErrRejected == "Promise rejected"

\* The settlement of the callback's promise for one item on the store st at time t.
settleItem(st, item, t) == IF item = NullItem THEN [status |-> "rejected", value |-> NoValue, store |-> st] ELSE [status |-> "fulfilled", value |-> batchItem(storeData(st, item.data, EmptyMetadata, t)), store |-> storeData(st, item.data, EmptyMetadata, t).store]

\* r.value || { success: false, error: 'Promise rejected' }
settledValue(r) == IF r.status = "fulfilled" THEN r.value ELSE [success |-> FALSE, cid |-> NoCid, error |-> ErrRejected]

\* A variant that takes every remaining item into the wave.
WaveOfRest(i, n) == {k \in 1..n : i <= k}

\* dataItems.slice(i, i + batchSize), by index
WaveOf(i, n) == {k \in 1..n : i <= k /\ k < i + BatchSize}

WithEntry(f, k, v) == [j \in (DOMAIN f) \cup {k} |-> IF j = k THEN v ELSE f[j]]

\* The results of the settled wave starting at i, in index order.
WaveResults(settled, i, n) == [j \in 1..Cardinality(WaveOf(i, n)) |-> settledValue(settled[i + j - 1])]

\* batchStore(dataItems) up to the first await Promise.allSettled: the first wave's
\* store calls are started.
StartBatch(items) == /\ bs.pc = "idle"
                     /\ bs' = [pc |-> IF items = <<>> THEN "done" ELSE "wave", items |-> items, i |-> 1, pending |-> WaveOf(1, Len(items)), settled |-> <<>>, results |-> <<>>, before |-> store.storageDeals]
                     /\ UNCHANGED <<gvars, tvars, cb, clock, calls, rt, store, fs>>

\* The store call of item k of the wave in flight completes.
ItemSettles(k) == /\ bs.pc = "wave"
                  /\ k \in bs.pending
                  /\ LET r == settleItem(store, bs.items[k], clock) IN
                       /\ store' = r.store
                       /\ bs' = [bs EXCEPT !.pending = @ \ {k}, !.settled = WithEntry(@, k, [status |-> r.status, value |-> r.value])]
                  /\ UNCHANGED <<gvars, tvars, cb, clock, calls, rt, fs>>

\* Promise.allSettled resolves: the wave's results are appended and the next wave starts,
\* or the results are returned.
WaveJoins == /\ bs.pc = "wave"
             /\ bs.pending = {}
             /\ bs' = [bs EXCEPT !.results = @ \o WaveResults(bs.settled, bs.i, Len(bs.items)), !.i = @ + BatchSize, !.pending = WaveOf(bs.i + BatchSize, Len(bs.items)), !.settled = <<>>, !.pc = IF bs.i + BatchSize > Len(bs.items) THEN "done" ELSE "wave"]
             /\ UNCHANGED <<gvars, tvars, cb, clock, calls, rt, store, fs>>

\* The caller has the results.
BatchDone == /\ bs.pc = "done"
             /\ bs' = IdleBatch
             /\ UNCHANGED <<gvars, tvars, cb, clock, calls, rt, store, fs>>

RECURSIVE SeqsUpTo(_, _)
SeqsUpTo(S, n) == IF n = 0 THEN {<<>>} ELSE LET shorter == SeqsUpTo(S, n - 1) IN shorter \cup {Append(q, x) : q \in shorter, x \in S}

BatchItems == SeqsUpTo({[data |-> d] : d \in ItemData} \cup {NullItem}, MaxItems)

NextBatch == \/ bs.pc = "idle" /\ \E items \in BatchItems : StartBatch(items)
             \/ \E k \in 1..MaxItems : ItemSettles(k)
             \/ WaveJoins
             \/ BatchDone

SpecBatch == Init /\ [][NextBatch]_vars

\* ------------------------------------------- FilecoinStorage (SpecStore)
\* A cid that no store call of this instance returned.
ForeignCid == <<"bafk2bzaced", "foreign", EmptyMetadata, 0>>

\* The deals simulateStorage records for a cid, by their state.
DealsOf(cid) == <<"Active">>

\* verifyDeals: at least half of the deals, rounded up, are active.
verifyDeals(deals) == Cardinality({k \in 1..Len(deals) : deals[k] \in {"Active", "Storing"}}) >= (Len(deals) + 1) \div 2

\* `${cid}-${contentHash}`
CacheKey(cid, data) == <<cid, generateContentHash(data)>>

\* The entries of the verification cache for a key that are less than an hour old at t.
FreshResults(st, key, t) == {e \in st.verificationCache : e.key = key /\ t - e.timestamp < VerificationTtl}

\* verifyStorageProof(cid, data) at time t: false without a deal record; else the cached
\* result if fresh; else the hash of data is compared with the hash of data, and the
\* result is whether the deals are active; the result is cached.
verifyStorageProof(st, cid, data, t) == IF cid \notin st.storageDeals THEN [valid |-> FALSE, raised |-> FALSE, store |-> st] ELSE IF FreshResults(st, CacheKey(cid, data), t) # {} THEN [valid |-> (CHOOSE e \in FreshResults(st, CacheKey(cid, data), t) : TRUE).valid, raised |-> FALSE, store |-> st] ELSE IF generateContentHash(data) # generateContentHash(data) THEN [valid |-> FALSE, raised |-> FALSE, store |-> st] ELSE [valid |-> verifyDeals(DealsOf(cid)), raised |-> FALSE, store |-> [st EXCEPT !.verificationCache = {e \in @ : e.key # CacheKey(cid, data)} \cup {[key |-> CacheKey(cid, data), valid |-> verifyDeals(DealsOf(cid)), timestamp |-> t]}]]

ErrRetrieveUnverified == "Failed to retrieve data: Storage proof verification failed for retrieved data"

\* retrieve from the network: the gateway fails for a simulated cid and the simulated
\* data is returned, verified if asked, and cached if small enough.
retrieveFromNetwork(st, cid, verifyIntegrity, t) == LET v == IF verifyIntegrity THEN verifyStorageProof(st, cid, SimulatedData, t) ELSE [valid |-> TRUE, raised |-> FALSE, store |-> st] IN IF ~v.valid THEN [ok |-> FALSE, err |-> ErrRetrieveUnverified, data |-> "undefined", source |-> "undefined", verified |-> FALSE, backend |-> TRUE, cacheCheck |-> "none", store |-> v.store] ELSE [ok |-> TRUE, err |-> NoErr, data |-> SimulatedData, source |-> "filecoin_network", verified |-> verifyIntegrity, backend |-> TRUE, cacheCheck |-> "none", store |-> [v.store EXCEPT !.warmCache = IF getDataSize(SimulatedData) <= WarmStorageThreshold THEN CachePut(@, cid, SimulatedData) ELSE @]]

\* Map.delete on the warm cache.
Evict(st, cid) == [st EXCEPT !.warmCache = {e \in @ : e.cid # cid}, !.evicted = @ \cup {cid}]

\* retrieve(cid, verifyIntegrity) at time t: a cache hit is returned when verification is
\* asked and succeeds; an entry that fails it is deleted; every other path goes to the network.
retrieve(st, cid, verifyIntegrity, t) == IF CacheHas(st.warmCache, cid) /\ verifyIntegrity THEN LET v == verifyStorageProof(st, cid, CacheGet(st.warmCache, cid), t) IN IF v.valid THEN [ok |-> TRUE, err |-> NoErr, data |-> CacheGet(st.warmCache, cid), source |-> "warm_cache", verified |-> TRUE, backend |-> FALSE, cacheCheck |-> "valid", store |-> v.store] ELSE [retrieveFromNetwork(Evict(v.store, cid), cid, verifyIntegrity, t) EXCEPT !.cacheCheck = "invalid"] ELSE retrieveFromNetwork(st, cid, verifyIntegrity, t)

\* The cids a caller can name: those the store returned or caches, and a foreign one.
KnownCids == store.storageDeals \cup {e.cid : e \in store.warmCache} \cup {ForeignCid}

Store(data, metadata) == /\ lastOp' = [op |-> "store", ok |-> storeData(store, data, metadata, clock).ok, err |-> storeData(store, data, metadata, clock).err, data |-> data, metadata |-> metadata, cid |-> storeData(store, data, metadata, clock).cid, at |-> clock, before |-> store]
                         /\ store' = storeData(store, data, metadata, clock).store
                         /\ UNCHANGED <<objs, graph, tvars, cb, clock, calls, rt, bs, fs>>

Retrieve(cid, verifyIntegrity) == /\ LET r == retrieve(store, cid, verifyIntegrity, clock) IN
                                       /\ lastOp' = [op |-> "retrieve", ok |-> r.ok, err |-> r.err, cid |-> cid, verifyIntegrity |-> verifyIntegrity, data |-> r.data, source |-> r.source, verified |-> r.verified, backend |-> r.backend, cacheCheck |-> r.cacheCheck, at |-> clock, before |-> store]
                                       /\ store' = r.store
                                  /\ UNCHANGED <<objs, graph, tvars, cb, clock, calls, rt, bs, fs>>

VerifyStorageProof(cid, data) == /\ LET v == verifyStorageProof(store, cid, data, clock) IN
                                      /\ lastOp' = [op |-> "verifyStorageProof", ok |-> ~v.raised, err |-> NoErr, cid |-> cid, data |-> data, valid |-> v.valid, at |-> clock, before |-> store]
                                      /\ store' = v.store
                                 /\ UNCHANGED <<objs, graph, tvars, cb, clock, calls, rt, bs, fs>>

\* clearCache()
ClearCache == /\ store' = [store EXCEPT !.warmCache = {}, !.verificationCache = {}, !.evicted = @ \cup {e.cid : e \in store.warmCache}]
              /\ lastOp' = [op |-> "clearCache", ok |-> TRUE, err |-> NoErr]
              /\ UNCHANGED <<objs, graph, tvars, cb, clock, calls, rt, bs, fs>>

NextStore == \/ \E data \in Payloads : Cardinality(store.storageDeals) < MaxStored /\ Store(data, EmptyMetadata)
             \/ \E cid \in KnownCids, verifyIntegrity \in BOOLEAN : Retrieve(cid, verifyIntegrity)
             \/ \E cid \in KnownCids, data \in Payloads \cup {SimulatedData} : VerifyStorageProof(cid, data)
             \/ ClearCache

SpecStore == Init /\ [][NextStore]_vars

\* ------------------- store with its awaits as scheduling points (SpecStoreAsync)
\* store(data, metadata) at time t up to `await this.generateStorageProof(...)`: the
\* payload is cached under the new cid; the deal record is not written yet.
storeBegin(st, data, metadata, t) == [st EXCEPT !.warmCache = IF getDataSize(data) <= WarmStorageThreshold THEN CachePut(@, simulateStorageCid(data, metadata, t), data) ELSE @, !.pending = @ \cup {simulateStorageCid(data, metadata, t)}]

\* The rest of store after the await: the deal record is written and the call returns.
storeFinish(st, cid) == [st EXCEPT !.storageDeals = @ \cup {cid}, !.pending = @ \ {cid}]

\* The cids a concurrent caller can name: those of KnownCids and those of the
\* store calls in flight.
AsyncKnownCids == KnownCids \cup store.pending

StoreBegin(data, metadata) == /\ store' = storeBegin(store, data, metadata, clock)
                              /\ lastOp' = [op |-> "storeBegin", ok |-> TRUE, err |-> NoErr, data |-> data, cid |-> simulateStorageCid(data, metadata, clock), before |-> store]
                              /\ UNCHANGED <<objs, graph, tvars, cb, clock, calls, rt, bs, fs>>

StoreFinish(cid) == /\ cid \in store.pending
                    /\ store' = storeFinish(store, cid)
                    /\ lastOp' = [op |-> "storeFinish", ok |-> TRUE, err |-> NoErr, cid |-> cid, before |-> store]
                    /\ UNCHANGED <<objs, graph, tvars, cb, clock, calls, rt, bs, fs>>

NextStoreAsync == \/ \E data \in Payloads : Cardinality(store.storageDeals \cup store.pending) < MaxStored /\ StoreBegin(data, EmptyMetadata)
                  \/ \E cid \in store.pending : StoreFinish(cid)
                  \/ \E cid \in AsyncKnownCids, verifyIntegrity \in BOOLEAN : Retrieve(cid, verifyIntegrity)
                  \/ \E cid \in AsyncKnownCids, data \in Payloads \cup {SimulatedData} : VerifyStorageProof(cid, data)
                  \/ ClearCache

SpecStoreAsync == Init /\ [][NextStoreAsync]_vars

\* ------------------------------------------------ verifyDeals (SpecDeals)
DealStates == {"Active", "Storing", "Expired"}

\* The deals of a deal record, by their state.
DealLists == SeqsUpTo(DealStates, MaxDeals)

VerifyDeals(deals) == /\ lastOp' = [op |-> "verifyDeals", ok |-> TRUE, err |-> NoErr, deals |-> deals, valid |-> verifyDeals(deals)]
                      /\ UNCHANGED <<objs, graph, tvars, rvars>>

NextDeals == \E deals \in DealLists : VerifyDeals(deals)

SpecDeals == Init /\ [][NextDeals]_vars

\* --------------------------------------------- optimizeCache (SpecCache)
\* A warm cache as its entries in Map order, each with its cid and its accessCount.
Caches == UNION {{[k \in 1..n |-> [cid |-> k, accessCount |-> f[k]]] : f \in [1..n -> 0..MaxAccess]} : n \in 0..MaxEntries}

\* A variant that sorts by descending accessCount.
sortByAccessDesc(items) == [r \in 1..Len(items) |-> items[CHOOSE i \in 1..Len(items) : Cardinality({j \in 1..Len(items) : items[j].accessCount > items[i].accessCount \/ (items[j].accessCount = items[i].accessCount /\ j < i)}) = r - 1]]

\* items.sort((a, b) => a[1].accessCount - b[1].accessCount): ascending by accessCount,
\* entries with equal counts in their Map order.
sortByAccess(items) == [r \in 1..Len(items) |-> items[CHOOSE i \in 1..Len(items) : Cardinality({j \in 1..Len(items) : items[j].accessCount < items[i].accessCount \/ (items[j].accessCount = items[i].accessCount /\ j < i)}) = r - 1]]

\* warmCache.delete(cid) for each of the cids.
cacheDelete(cache, cids) == LET F[i \in 0..Len(cache)] == IF i = 0 THEN <<>> ELSE IF cache[i].cid \in cids THEN F[i - 1] ELSE Append(F[i - 1], cache[i]) IN F[Len(cache)]

\* optimizeCache(): above the maximum, the first size - max entries of the sorted list
\* are deleted; the other entries stay in their Map order.
optimizeCache(cache) == IF Len(cache) > MaxCacheSize THEN LET toRemove == SubSeq(sortByAccess(cache), 1, Len(cache) - MaxCacheSize) IN cacheDelete(cache, {toRemove[r].cid : r \in 1..Len(toRemove)}) ELSE cache

OptimizeCache(cache) == /\ lastOp' = [op |-> "optimizeCache", ok |-> TRUE, err |-> NoErr, before |-> cache, after |-> optimizeCache(cache)]
                        /\ UNCHANGED <<objs, graph, tvars, rvars>>

NextCache == \E cache \in Caches : OptimizeCache(cache)

SpecCache == Init /\ [][NextCache]_vars

\* ------------------------------ batchStore and batchRetrieve (SpecWaves)
\* cids.slice(i, i + batchSize), by index
RetrieveWaveOf(i, n) == {k \in 1..n : i <= k /\ k < i + RetrieveBatchSize}

\* The callback batchRetrieve maps over a wave, for one cid on the store st at time t,
\* with verifyIntegrity at its default: the callback catches what retrieve raises.
retrieveItem(st, cid, t) == LET r == retrieve(st, cid, TRUE, t) IN [value |-> IF r.ok THEN [success |-> TRUE, cid |-> cid, data |-> r.data, error |-> NoErr] ELSE [success |-> FALSE, cid |-> cid, data |-> "undefined", error |-> r.err], store |-> r.store]

RetrieveWaveResults(settled, i, n) == [j \in 1..Cardinality(RetrieveWaveOf(i, n)) |-> settled[i + j - 1]]

\* batchRetrieve(cids) up to the first await Promise.allSettled: the first wave's
\* retrieve calls are started.
StartBatchRetrieve(cids) == /\ bs.pc = "idle"
                            /\ bs' = [pc |-> IF cids = <<>> THEN "rdone" ELSE "rwave", items |-> cids, i |-> 1, pending |-> RetrieveWaveOf(1, Len(cids)), settled |-> <<>>, results |-> <<>>, before |-> store.storageDeals]
                            /\ UNCHANGED <<gvars, tvars, cb, clock, calls, rt, store, fs>>

\* The retrieve call of cid k of the wave in flight completes.
RetrieveSettles(k) == /\ bs.pc = "rwave"
                      /\ k \in bs.pending
                      /\ LET r == retrieveItem(store, bs.items[k], clock) IN
                           /\ store' = r.store
                           /\ bs' = [bs EXCEPT !.pending = @ \ {k}, !.settled = WithEntry(@, k, r.value)]
                      /\ UNCHANGED <<gvars, tvars, cb, clock, calls, rt, fs>>

\* Promise.allSettled resolves: the wave's results are appended and the next wave starts,
\* or the results are returned.
RetrieveWaveJoins == /\ bs.pc = "rwave"
                     /\ bs.pending = {}
                     /\ bs' = [bs EXCEPT !.results = @ \o RetrieveWaveResults(bs.settled, bs.i, Len(bs.items)), !.i = @ + RetrieveBatchSize, !.pending = RetrieveWaveOf(bs.i + RetrieveBatchSize, Len(bs.items)), !.settled = <<>>, !.pc = IF bs.i + RetrieveBatchSize > Len(bs.items) THEN "rdone" ELSE "rwave"]
                     /\ UNCHANGED <<gvars, tvars, cb, clock, calls, rt, store, fs>>

\* The caller has the results.
BatchRetrieveDone == /\ bs.pc = "rdone"
                     /\ bs' = IdleBatch
                     /\ UNCHANGED <<gvars, tvars, cb, clock, calls, rt, store, fs>>

\* The lists of cids given to batchRetrieve: up to MaxCids cids, foreign ones and at
\* most one cid the store returned.
CidLists == {[k \in 1..n |-> ForeignCid] : n \in 0..MaxCids} \cup {[k \in 1..n |-> IF k = p THEN c ELSE ForeignCid] : n \in 1..MaxCids, p \in 1..MaxCids, c \in store.storageDeals}

NextWaves == \/ bs.pc = "idle" /\ store = EmptyStore /\ \E items \in BatchItems : StartBatch(items)
             \/ \E k \in 1..MaxItems : ItemSettles(k)
             \/ WaveJoins
             \/ BatchDone
             \/ bs.pc = "idle" /\ store = EmptyStore /\ \E data \in Payloads : Store(data, EmptyMetadata)
             \/ bs.pc = "idle" /\ Cardinality(store.storageDeals) <= MaxStored /\ \E cids \in CidLists : StartBatchRetrieve(cids)
             \/ \E k \in 1..MaxCids : RetrieveSettles(k)
             \/ RetrieveWaveJoins
             \/ BatchRetrieveDone

SpecWaves == Init /\ [][NextWaves]_vars

\* --------------------------------- FilecoinStorage, simple store (SpecFs)
\* uploadToFilecoin: the cid is a hash of the data, the metadata and Date.now().
uploadToFilecoin(data, metadata, t) == <<"bafk", data, metadata, t>>

\* `Retrieved data for CID: ${cid}`
RetrievedData == "Retrieved data for CID"

ErrNoProof == "No PDP proof found for CID"

\* verifyPDPProof(cid, data): raises without a stored proof, else whether the stored proof
\* string is not empty, which it never is.
verifyPDPProof(st, cid, data) == IF cid \notin st.pdpProofs THEN [raised |-> TRUE, valid |-> FALSE, err |-> ErrNoProof] ELSE [raised |-> FALSE, valid |-> TRUE, err |-> NoErr]

\* store(data, metadata) of the simple store at time t.
fsStoreData(st, data, metadata, t) == [ok |-> TRUE, err |-> NoErr, cid |-> uploadToFilecoin(data, metadata, t), store |-> [warmCache |-> IF getDataSize(data) <= WarmStorageThreshold THEN CachePut(st.warmCache, uploadToFilecoin(data, metadata, t), data) ELSE st.warmCache, pdpProofs |-> st.pdpProofs \cup {uploadToFilecoin(data, metadata, t)}]]

\* The outcome of checking data against the proof of cid, when asked.
fsCheck(st, cid, data, verifyProof) == IF ~verifyProof THEN "none" ELSE IF verifyPDPProof(st, cid, data).raised THEN "raised" ELSE IF verifyPDPProof(st, cid, data).valid THEN "valid" ELSE "invalid"

fsFailed(st, check, err) == [ok |-> FALSE, err |-> err, data |-> "undefined", source |-> "undefined", backend |-> FALSE, cacheCheck |-> check, store |-> st]

\* retrieve(cid, verifyProof) of the simple store: a cache hit is checked and returned,
\* and a failed check raises; a miss goes to Filecoin, is checked and cached.
fsRetrieve(st, cid, verifyProof) == IF CacheHas(st.warmCache, cid) THEN LET check == fsCheck(st, cid, CacheGet(st.warmCache, cid), verifyProof) IN IF check = "raised" THEN fsFailed(st, check, "Failed to retrieve data: No PDP proof found for CID") ELSE IF check = "invalid" THEN fsFailed(st, check, "Failed to retrieve data: PDP proof verification failed for cached data") ELSE [ok |-> TRUE, err |-> NoErr, data |-> CacheGet(st.warmCache, cid), source |-> "warm_cache", backend |-> FALSE, cacheCheck |-> check, store |-> st] ELSE LET check == fsCheck(st, cid, RetrievedData, verifyProof) IN IF check = "raised" THEN [fsFailed(st, "none", "Failed to retrieve data: No PDP proof found for CID") EXCEPT !.backend = TRUE] ELSE IF check = "invalid" THEN [fsFailed(st, "none", "Failed to retrieve data: PDP proof verification failed for Filecoin data") EXCEPT !.backend = TRUE] ELSE [ok |-> TRUE, err |-> NoErr, data |-> RetrievedData, source |-> "filecoin", backend |-> TRUE, cacheCheck |-> "none", store |-> [st EXCEPT !.warmCache = IF getDataSize(RetrievedData) <= WarmStorageThreshold THEN CachePut(@, cid, RetrievedData) ELSE @]]

\* The cids a caller of the simple store can name.
FsKnownCids == fs.pdpProofs \cup {e.cid : e \in fs.warmCache} \cup {ForeignCid}

FsStore(data, metadata) == /\ lastOp' = [op |-> "fs.store", ok |-> TRUE, err |-> NoErr, data |-> data, metadata |-> metadata, cid |-> fsStoreData(fs, data, metadata, clock).cid, at |-> clock, before |-> fs]
                           /\ fs' = fsStoreData(fs, data, metadata, clock).store
                           /\ UNCHANGED <<objs, graph, tvars, cb, clock, calls, rt, bs, store>>

FsRetrieve(cid, verifyProof) == /\ LET r == fsRetrieve(fs, cid, verifyProof) IN
                                     /\ lastOp' = [op |-> "fs.retrieve", ok |-> r.ok, err |-> r.err, cid |-> cid, verifyIntegrity |-> verifyProof, data |-> r.data, source |-> r.source, backend |-> r.backend, cacheCheck |-> r.cacheCheck, at |-> clock, before |-> fs]
                                     /\ fs' = r.store
                                /\ UNCHANGED <<objs, graph, tvars, cb, clock, calls, rt, bs, store>>

FsVerifyPDPProof(cid, data) == /\ lastOp' = [op |-> "fs.verifyPDPProof", ok |-> ~verifyPDPProof(fs, cid, data).raised, err |-> verifyPDPProof(fs, cid, data).err, cid |-> cid, data |-> data, valid |-> verifyPDPProof(fs, cid, data).valid, at |-> clock, before |-> fs]
                               /\ UNCHANGED <<objs, graph, tvars, rvars>>

\* clearCache() of the simple store
FsClearCache == /\ fs' = [fs EXCEPT !.warmCache = {}]
                /\ lastOp' = [op |-> "fs.clearCache", ok |-> TRUE, err |-> NoErr]
                /\ UNCHANGED <<objs, graph, tvars, cb, clock, calls, rt, bs, store>>

NextFs == \/ \E data \in Payloads, metadata \in Metadatas : Cardinality(fs.pdpProofs) < MaxStored + 1 /\ FsStore(data, metadata)
          \/ \E cid \in FsKnownCids, verifyProof \in BOOLEAN : FsRetrieve(cid, verifyProof)
          \/ \E cid \in FsKnownCids, data \in Payloads \cup {RetrievedData} : FsVerifyPDPProof(cid, data)
          \/ FsClearCache
          \/ clock < MaxStored /\ Tick

SpecFs == Init /\ [][NextFs]_vars

\* ------------------------------------- withBulkErrorHandling (SpecBulk)
\* An operation that raises nothing: throw undefined, or a promise rejected without a
\* reason. Reading its message raises a TypeError.
UndefinedThrown == [prov |-> FALSE, type |-> "undefined", message |-> {"Cannot read properties of undefined"}, retryable |-> FALSE]

\* The values the operations raise: plain errors, an error of the library, and undefined.
BulkThrown == {PlainError({}), PlainError({"timeout"}), ProvChainError({}, "VERIFICATION_ERROR"), UndefinedThrown}

\* What one operation does when invoked: it returns a value or raises.
OpOutcomes == {[raises |-> FALSE, value |-> v, error |-> UndefinedThrown] : v \in Values} \cup {[raises |-> TRUE, value |-> "undefined", error |-> e] : e \in BulkThrown}

BulkOperations == SeqsUpTo(OpOutcomes, MaxOps)

NoBulk == [raised |-> FALSE, invoked |-> <<>>, results |-> <<>>, errors |-> <<>>, logged |-> <<>>]

\* A variant of the loop's catch that leaves the loop at the first failure.
bulkCatchStops(acc, i, error) == [acc EXCEPT !.raised = TRUE]

\* The catch of the loop for operation i (indices from 0 in the results): the error is
\* classified, logged and recorded; classifying undefined raises out of the catch.
bulkCatch(acc, i, error) == IF error = UndefinedThrown THEN [acc EXCEPT !.raised = TRUE] ELSE [acc EXCEPT !.results = Append(@, [index |-> i - 1, success |-> FALSE, error |-> classifyError(error)]), !.errors = Append(@, classifyError(error)), !.logged = Append(@, classifyError(error))]

\* The loop of withBulkErrorHandling from operation i on.
RECURSIVE bulkLoop(_, _, _)
bulkLoop(operations, i, acc) == IF i > Len(operations) \/ acc.raised THEN acc ELSE IF operations[i].raises THEN bulkLoop(operations, i + 1, bulkCatch([acc EXCEPT !.invoked = Append(@, i)], i, operations[i].error)) ELSE bulkLoop(operations, i + 1, [acc EXCEPT !.invoked = Append(@, i), !.results = Append(@, [index |-> i - 1, success |-> TRUE, data |-> operations[i].value])])

\* results.filter(r => r.success).length
SuccessCount(results) == Cardinality({k \in 1..Len(results) : results[k].success})

\* withBulkErrorHandling(operations): what the loop collected and the counts returned.
withBulkErrorHandling(operations) == LET acc == bulkLoop(operations, 1, NoBulk) IN [raised |-> acc.raised, invoked |-> acc.invoked, results |-> acc.results, errors |-> acc.errors, logged |-> acc.logged, successCount |-> SuccessCount(acc.results), errorCount |-> Len(acc.errors), totalCount |-> Len(operations)]

WithBulk(operations) == /\ lastOp' = [op |-> "withBulkErrorHandling", operations |-> operations, out |-> withBulkErrorHandling(operations)]
                        /\ UNCHANGED <<objs, graph, tvars, rvars>>

NextBulk == \E operations \in BulkOperations : WithBulk(operations)

SpecBulk == Init /\ [][NextBulk]_vars

\* ------------------------------------------------------------------ claims
Edge(i) == graph.edges[i]

PathNodes(p) == [i \in 1..Len(p) |-> p[i].node]

NoRepeat(q) == \A i \in 1..Len(q), j \in 1..Len(q) : i # j => q[i] # q[j]

HasCycle == \E i \in 1..Len(graph.edges), j \in 1..Len(graph.edges) : Edge(i).sourceId = Edge(j).targetId /\ Edge(i).targetId = Edge(j).sourceId

\* C1: in every state reached by addNode, addEdge and importGraph calls, successful
\* or failing, both endpoints of every edge of the edges map are keys of the nodes map.
C1_NoDanglingEdge == \A i \in 1..Len(graph.edges) : HasNode(graph, Edge(i).sourceId) /\ HasNode(graph, Edge(i).targetId)

\* An importGraph that failed on a dangling edge of the snapshot after it had
\* already re-added an earlier edge.
C1_Witness == lastOp.op = "importGraph" /\ ~lastOp.ok /\ lastOp.err = ErrDangling /\ Len(graph.edges) >= 1

\* C2: an addEdge whose source or target is not a key of nodes fails with the
\* dangling-reference error and leaves the node objects, nodes, edges, the indices
\* and the metrics as they were; an addEdge that succeeds had both endpoints in nodes.
C2_AddEdgeChecksEndpoints == [][(lastOp'.op = "addEdge" /\ lastOp'.err # ErrInvalidEdge) => LET e == lastOp'.edge present == HasNode(graph, e.sourceId) /\ HasNode(graph, e.targetId) IN /\ (~present => ~lastOp'.ok /\ lastOp'.err = ErrDangling /\ graph' = graph /\ objs' = objs) /\ (lastOp'.ok => present)]_vars

\* A failed addEdge on a graph that already holds nodes and an edge.
C2_Witness == lastOp.op = "addEdge" /\ ~lastOp.ok /\ lastOp.err = ErrDangling /\ Len(graph.edges) >= 1 /\ HasNode(graph, lastOp.edge.sourceId) /\ ~HasNode(graph, lastOp.edge.targetId)

\* C3: every path getProvenance(id, maxDepth) collects has at most maxDepth + 1
\* steps and no node id twice, whatever the graph (cycles, self-loops, shared ancestors).
C3_PathsBoundedAndSimple == \A k \in 1..Len(tprov) : Len(tprov[k]) <= targ.maxDepth + 1 /\ NoRepeat(PathNodes(tprov[k]))

\* A finished query on a graph with a two-edge cycle that returned a path of
\* exactly maxDepth + 1 >= 2 steps.
C3_Witness == tpc = "done" /\ HasCycle /\ \E k \in 1..Len(tprov) : Len(tprov[k]) = targ.maxDepth + 1 /\ Len(tprov[k]) >= 2

\* C4: every started getProvenance reaches its return, and no node is expanded
\* (passes the visited/depth test and has its incoming edges read) more than once.
C4_TraversalTerminates == [](\A n \in NodeIds : texpanded[n] <= 1) /\ ((tpc = "running") ~> (tpc = "done"))

\* A finished query whose start node lies on a cycle and got expanded.
C4_Witness == tpc = "done" /\ texpanded[targ.nodeId] = 1 /\ \E i \in 1..Len(graph.edges), j \in 1..Len(graph.edges) : Edge(i).targetId = targ.nodeId /\ Edge(j).sourceId = targ.nodeId /\ Edge(i).sourceId = Edge(j).targetId

\* The graph is the chain 1 -> 2 -> ... -> n: n nodes, one edge between consecutive
\* nodes and no other edge.
IsChain(n) == /\ Range(graph.nodes) = 1..n
              /\ Len(graph.edges) = n - 1
              /\ \A k \in 1..(n - 1) : \E i \in 1..Len(graph.edges) : Edge(i).sourceId = k /\ Edge(i).targetId = k + 1

ChainQueried(n) == tpc = "done" /\ n >= 2 /\ IsChain(n) /\ targ.nodeId = n /\ targ.maxDepth >= n - 1

\* C5 as claimed: for the chain N1 -> ... -> Nn and maxDepth >= n - 1,
\* getProvenance(Nn) returns exactly one path of n steps, deepest ancestor N1 first
\* and the queried node Nn last.
C5_ChainPathAncestorFirst == \A n \in 2..MaxNodes : ChainQueried(n) => Len(tprov) = 1 /\ Len(tprov[1]) = n /\ \A k \in 1..n : tprov[1][k].node = k

\* What the code returns for the chain: one path of n steps, the queried node first.
C5_ChainPathQueriedFirst == \A n \in 2..MaxNodes : ChainQueried(n) => Len(tprov) = 1 /\ Len(tprov[1]) = n /\ \A k \in 1..n : tprov[1][k].node = n + 1 - k

C5_Witness == ChainQueried(MaxNodes)

\* The traversal as a step machine returns what the traversal as one call returns.
TraversalAgrees == tpc = "done" => tprov = getProvenance(graph, targ.nodeId, targ.maxDepth)

HistoryOf(n) == objs[n].verificationHistory

IsVerify == lastOp.op = "verify"

\* C6 as claimed: verify fails with the not-linked error exactly when the cid is
\* null, and then it appends nothing to the history and does not call the store.
C6_NotLinkedIffCidNull == IsVerify => (((lastOp.err = ErrNotLinked) <=> (lastOp.before.cid = NoCid)) /\ ((lastOp.err = ErrNotLinked) => (~lastOp.called /\ HistoryOf(lastOp.id) = lastOp.before.verificationHistory)))

\* C7 as claimed: every verify of a linked node appends exactly one integrity_check
\* entry whose outcome is the store's verdict, also when the store's call fails, and
\* verify returns true only when the store reported the proof valid.
C7_VerifyAlwaysRecords == (IsVerify /\ IsLinked(lastOp.before)) => ((HistoryOf(lastOp.id) = Append(lastOp.before.verificationHistory, [action |-> "integrity_check", cid |-> lastOp.before.cid, verified |-> (lastOp.verdict = "valid")])) /\ (lastOp.ok => (lastOp.verdict = "valid")))

\* What the code does: the not-linked error is raised exactly when the cid or the
\* storage proof is missing, before the store is called and before the history is touched.
NotLinkedIffCidOrProofMissing == IsVerify => (((lastOp.err = ErrNotLinked) <=> ~IsLinked(lastOp.before)) /\ ((lastOp.err = ErrNotLinked) => (~lastOp.called /\ HistoryOf(lastOp.id) = lastOp.before.verificationHistory)))

\* What the code does: one entry per verdict the store returned, none when its call raised.
VerifyRecordsReturnedVerdicts == (IsVerify /\ IsLinked(lastOp.before)) => IF lastOp.verdict = "throws" THEN HistoryOf(lastOp.id) = lastOp.before.verificationHistory /\ ~lastOp.ok ELSE Len(HistoryOf(lastOp.id)) = Len(lastOp.before.verificationHistory) + 1 /\ (lastOp.ok <=> lastOp.verdict = "valid")

\* Whether node.verify raises for node n, the store answering vf.
NodeFails(n, vf) == Truthy(objs[n].cid) /\ ~(objs[n].storageProof /\ vf[<<objs[n].cid, objs[n].data>>] = "valid")

\* Whether edge.verify raises for the edge of id `id`.
EdgeFails(id) == LET e == graph.edges[EdgePos(graph.edges, id)] IN e.hasTransformation /\ e.transformationProof # NoProof /\ (e.transformationProof[1] # Hash(objs[e.sourceId].data) \/ e.transformationProof[2] # Hash(objs[e.targetId].data))

StepFails(step, vf) == NodeFails(step.node, vf) \/ (step.edge # NoEdge /\ EdgeFails(step.edge))

FailedSteps(path, vf) == LET F[i \in 0..Len(path)] == IF i = 0 THEN <<>> ELSE IF StepFails(path[i], vf) THEN Append(F[i - 1], path[i]) ELSE F[i - 1] IN F[Len(path)]

IsVerifyProvenance == lastOp.op = "verifyProvenance"

\* The errors of one path result are one entry per failed step, in order, with the
\* step's node id and edge id and a message.
ErrorsMatch(errors, failed) == Len(errors) = Len(failed) /\ \A j \in 1..Len(failed) : errors[j].nodeId = failed[j].node /\ errors[j].edgeId = failed[j].edge /\ errors[j].error # NoErr

ResultCollects(r, path, vf) == r.path = path /\ r.tried = Len(path) /\ ErrorsMatch(r.errors, FailedSteps(path, vf))

\* C8: verifyProvenance never raises; it returns one result per path of
\* getProvenance(nodeId), in order; for every path it runs every step, and it records
\* one error entry for every step that failed.
C8_VerifyProvenanceCollects == IsVerifyProvenance => (lastOp.ok /\ Len(lastOp.results) = Len(getProvenance(graph, lastOp.id, DefaultMaxDepth)) /\ \A k \in 1..Len(lastOp.results) : ResultCollects(lastOp.results[k], getProvenance(graph, lastOp.id, DefaultMaxDepth)[k], lastOp.vf))

\* Two paths; the first step of the first path failed and its second step was still
\* run, and the second path is valid.
C8_Witness == IsVerifyProvenance /\ Len(lastOp.results) = 2 /\ ~lastOp.results[1].valid /\ lastOp.results[1].errors[1].nodeId = lastOp.results[1].path[1].node /\ lastOp.results[1].tried = 2 /\ lastOp.results[2].valid

AllStepsPass(path, vf) == \A i \in 1..Len(path) : ~StepFails(path[i], vf)

\* C9: a path is reported valid exactly when every node of the path that has a cid
\* passes node.verify and every edge of the path passes edge.verify; nodes without a
\* cid are skipped.
C9_ValidIffAllStepsPass == IsVerifyProvenance => \A k \in 1..Len(lastOp.results) : lastOp.results[k].valid <=> AllStepsPass(lastOp.results[k].path, lastOp.vf)

\* A chain of three nodes reported as one valid path, with an unlinked node and a
\* linked node on it.
C9_Witness == IsVerifyProvenance /\ Len(lastOp.results) = 1 /\ lastOp.results[1].valid /\ Len(lastOp.results[1].path) = 3 /\ \E i \in 1..3, j \in 1..3 : objs[lastOp.results[1].path[i].node].cid = NoCid /\ IsLinked(objs[lastOp.results[1].path[j].node])

IsRoundTrip == lastOp.op = "roundTrip"

\* C10 as claimed: the graph rebuilt from a snapshot has as many nodes and edges as
\* the graph the snapshot was taken of, the same cid index and the same tag index.
C10_RoundTripSameIndices == IsRoundTrip => (lastOp.ok /\ Len(lastOp.fresh.nodes) = Len(graph.nodes) /\ Len(lastOp.fresh.edges) = Len(graph.edges) /\ lastOp.fresh.byCid = graph.byCid /\ lastOp.fresh.byTags = graph.byTags)

\* What the code does: the counts are the same, and the rebuilt indices are those of
\* the nodes as they are at the export, not those of the exported graph.
RoundTripSameCounts == IsRoundTrip => (lastOp.ok /\ Len(lastOp.fresh.nodes) = Len(graph.nodes) /\ Len(lastOp.fresh.edges) = Len(graph.edges) /\ lastOp.fresh.nodes = graph.nodes /\ lastOp.fresh.edges = graph.edges)

\* A round trip of a graph holding a node that was linked after it was added.
RoundTripOfLateLink == IsRoundTrip /\ \E i \in 1..Len(graph.nodes) : objs[graph.nodes[i]].cid # NoCid /\ graph.byCid[objs[graph.nodes[i]].cid] = NoNode

IsLink == lastOp.op = "linkToFilecoin"

StorageLinked(h) == {i \in 1..Len(h) : h[i].action = "storage_linked"}

\* The link repeats the node's link: the node was linked and the cid is its cid.
IsRelink == IsLink /\ IsLinked(lastOp.before) /\ lastOp.cid = lastOp.before.cid

\* C11 as claimed: linking a linked node again with its cid does not lengthen the
\* history, which still holds exactly one storage_linked entry.
C11_RelinkSameCidIdempotent == IsRelink => (Len(HistoryOf(lastOp.id)) = Len(lastOp.before.verificationHistory) /\ (lastOp.before.verificationHistory = <<[action |-> "storage_linked", cid |-> lastOp.cid, verified |-> TRUE]>> => Cardinality(StorageLinked(HistoryOf(lastOp.id))) = 1))

\* What the code does: every link with a proof appends one storage_linked entry.
LinkAlwaysAppends == (IsLink /\ lastOp.ok) => HistoryOf(lastOp.id) = Append(lastOp.before.verificationHistory, [action |-> "storage_linked", cid |-> lastOp.cid, verified |-> TRUE])

\* The same node linked twice with one cid and nothing else done to it.
RelinkedOnce == IsRelink /\ lastOp.ok /\ Len(lastOp.before.verificationHistory) = 1

\* The link names another cid than the one the node is linked to.
IsRelinkOther == IsLink /\ IsLinked(lastOp.before) /\ lastOp.cid # lastOp.before.cid

FirstLinkCid(h) == h[CHOOSE i \in StorageLinked(h) : \A j \in StorageLinked(h) : i <= j].cid

\* C12 as claimed: a link of a linked node with another cid fails and leaves the node
\* as it was, so a cid that is set is the cid of the node's first successful link.
C12_CidSetOnce == (IsRelinkOther => (~lastOp.ok /\ objs[lastOp.id] = lastOp.before)) /\ (\A n \in 1..Len(objs) : (objs[n].cid # NoCid /\ StorageLinked(HistoryOf(n)) # {}) => objs[n].cid = FirstLinkCid(HistoryOf(n)))

\* What the code does: the cid of a node is the cid of the last link called on it.
CidIsLastLinkCid == IsLink => objs[lastOp.id].cid = lastOp.cid

\* A node linked to one cid and then, with a proof, to another.
RelinkedOther == IsRelinkOther /\ lastOp.ok

IsBreakerCall == lastOp.op = "breakerCall"

IsBreakerThrow == lastOp.op = "breakerThrow"

IsBreakerReturn == lastOp.op = "breakerReturn"

\* The call was made while the circuit was open, less than the timeout after the last failure.
CalledWhileOpen == IsBreakerCall /\ lastOp.before.state = "OPEN" /\ lastOp.at - lastOp.before.lastFailure < lastOp.before.timeout

\* C13: once the failure count has reached the threshold the breaker is open until the
\* timeout has passed since the last failure; a call made in that time is rejected with
\* RESOURCE_ERROR, does not invoke the operation, and leaves the breaker as it was.
C13_OpenRejects == ((cb.failures >= cb.threshold /\ clock - cb.lastFailure < cb.timeout) => cb.state = "OPEN") /\ ((IsBreakerThrow /\ cb.failures = cb.threshold) => cb.state = "OPEN") /\ (CalledWhileOpen => (~lastOp.ok /\ lastOp.err = ErrResource /\ ~lastOp.invoked /\ calls[lastOp.caller].pc = "idle" /\ cb = lastOp.before))

\* The threshold-th failure was followed, within the timeout, by a rejected call.
C13_Witness == CalledWhileOpen /\ ~lastOp.ok /\ cb.failures = cb.threshold /\ cb.threshold = MaxThreshold /\ lastOp.at > cb.lastFailure

\* The call was made while the circuit was open and the timeout had passed.
CalledAfterTimeout == IsBreakerCall /\ lastOp.before.state = "OPEN" /\ lastOp.at - lastOp.before.lastFailure >= lastOp.before.timeout

\* C14 as claimed: a call made when the circuit is open and the timeout has passed
\* moves the breaker to half-open and invokes the operation, and when that trial call
\* succeeds the breaker is closed with a failure count of 0.
C14_TrialSuccessCloses == (CalledAfterTimeout => (lastOp.invoked /\ cb.state = "HALF_OPEN" /\ calls[lastOp.caller].trial)) /\ ((IsBreakerReturn /\ lastOp.trial) => (cb.state = "CLOSED" /\ cb.failures = 0))

\* What the code does: a call that returns while the breaker is half-open, the trial
\* or not, closes it and resets the count; one that returns in another state changes nothing.
ReturnClosesHalfOpen == IsBreakerReturn => cb = (IF lastOp.before.state = "HALF_OPEN" THEN [lastOp.before EXCEPT !.state = "CLOSED", !.failures = 0] ELSE lastOp.before)

\* A trial call returned after another call's failure had reopened the circuit.
TrialReturnedWhileOpen == IsBreakerReturn /\ lastOp.trial /\ lastOp.before.state = "OPEN" /\ cb.state = "OPEN"

\* C15: when the wrapped operation raises while the breaker is half-open, the breaker
\* is open again, the time of the last failure is the time of this failure, so calls
\* within the timeout are rejected, and the error raised to the caller is the operation's.
C15_TrialFailureReopens == (IsBreakerThrow /\ lastOp.before.state = "HALF_OPEN") => (cb.state = "OPEN" /\ cb.lastFailure = lastOp.at /\ (clock - lastOp.at < cb.timeout => IsRejecting(cb, clock)) /\ ~lastOp.ok /\ lastOp.err = lastOp.thrown)

\* The trial call of a half-open breaker raised.
C15_Witness == IsBreakerThrow /\ lastOp.before.state = "HALF_OPEN" /\ lastOp.trial /\ cb.state = "OPEN"

AllRetryable(log) == \A i \in 1..Len(log) : log[i].retryable

\* C16: when the first failure is classified as not retryable, the operation is invoked
\* once, nothing is slept and that classified error is raised; only failures of type
\* NETWORK_ERROR, RATE_LIMIT_ERROR or STORAGE_ERROR are followed by another attempt.
C16_NonRetryableStopsAtOnce == ((Len(rt.log) >= 1 /\ rt.log[1].type \in {"VALIDATION_ERROR", "VERIFICATION_ERROR", "RESOURCE_ERROR", "AUTHENTICATION_ERROR", "INTERNAL_ERROR"}) => (rt.invoked = 1 /\ rt.slept = <<>> /\ rt.pc = "raised" /\ rt.lastError = rt.log[1])) /\ (\A i \in 1..Len(rt.log) : i < rt.invoked => rt.log[i].type \in {"NETWORK_ERROR", "RATE_LIMIT_ERROR", "STORAGE_ERROR"})

\* A verification failure, classified from a plain error's message, ended the call at once.
C16_Witness == rt.pc = "raised" /\ rt.invoked = 1 /\ rt.maxRetries > 0 /\ rt.lastError.type = "VERIFICATION_ERROR" /\ rt.lastError.message = {"proof"}

\* C17 as claimed: with maxRetries >= 1, while every failure is retryable the operation
\* is invoked at most maxRetries times; the call then raises the classified error of the last attempt
\* and returns no value.
C17_StopsAfterMaxRetriesAttempts == (rt.maxRetries >= 1 /\ AllRetryable(rt.log)) => (rt.invoked <= rt.maxRetries /\ ((rt.pc = "raised" /\ rt.log # <<>>) => (rt.invoked = rt.maxRetries /\ rt.lastError = rt.log[Len(rt.log)] /\ rt.result = "undefined")))

\* What the code does: the loop runs attempts 0..maxRetries, so the operation is invoked
\* at most maxRetries + 1 times, and a call that raised after retryable failures only
\* made exactly maxRetries + 1 attempts and raised the classified error of the last one.
RetryStopsAfterMaxRetriesPlusOne == rt.invoked <= rt.maxRetries + 1 /\ ((rt.pc = "raised" /\ AllRetryable(rt.log)) => (rt.invoked = rt.maxRetries + 1 /\ Len(rt.slept) = rt.maxRetries /\ rt.lastError = rt.log[Len(rt.log)] /\ rt.result = "undefined"))

\* A call with the default maxRetries raised after retryable failures only.
RetriesExhausted == rt.pc = "raised" /\ AllRetryable(rt.log) /\ rt.maxRetries = DefaultMaxRetries /\ rt.invoked = DefaultMaxRetries + 1

\* C18: a call that returns after k retryable failures returns the value of the attempt
\* that succeeded, has invoked the operation k + 1 times and slept k times, with
\* k <= maxRetries, and raises nothing although k failures were logged.
C18_SucceedsAfterRetries == rt.pc = "returned" => (rt.result \in Values /\ rt.invoked = Len(rt.log) + 1 /\ Len(rt.slept) = Len(rt.log) /\ Len(rt.log) <= rt.maxRetries /\ AllRetryable(rt.log) /\ \A i \in 1..Len(rt.slept) : rt.slept[i] = retryDelay(i - 1))

\* The operation failed twice, with a network error and then a storage error, and then returned.
C18_Witness == rt.pc = "returned" /\ Len(rt.log) = 2 /\ rt.log[1].type = "NETWORK_ERROR" /\ rt.log[2].type = "STORAGE_ERROR" /\ rt.result = "r2" /\ rt.maxRetries = 2

BatchReturned == bs.pc = "done"

Stored(k) == bs.items[k] # NullItem /\ bs.items[k].data # "undefined"

FailedError(k) == IF bs.items[k] = NullItem THEN ErrRejected ELSE ErrHashUndefined

Successes(results) == {k \in 1..Len(results) : results[k].success}

IsBulk == lastOp.op = "withBulkErrorHandling"

Raising(operations) == {k \in 1..Len(operations) : operations[k].raises}

\* Every operation was invoked once in index order, the call returned, and the results
\* and counts describe the operations.
BulkCovers(operations, out) == ~out.raised /\ out.invoked = [k \in 1..Len(operations) |-> k] /\ Len(out.results) = Len(operations) /\ (\A k \in 1..Len(operations) : (out.results[k].index = k - 1 /\ out.results[k].success = ~operations[k].raises)) /\ out.successCount + out.errorCount = out.totalCount /\ out.totalCount = Len(operations) /\ out.errorCount = Cardinality(Raising(operations))

\* C20 as claimed: withBulkErrorHandling invokes every operation exactly once in index
\* order whatever failed before, never raises, and returns one result per operation, index
\* i at position i, with successCount + errorCount = totalCount = the number of operations
\* and errorCount = the number of operations that raised.
C20_BulkRunsEveryOperation == IsBulk => BulkCovers(lastOp.operations, lastOp.out)

\* What the code does: the claim holds whenever every raising operation raised a value
\* with a readable message; an operation that raises undefined makes the call raise there.
BulkRunsEveryOperationRaisingErrors == IsBulk => IF \A k \in Raising(lastOp.operations) : lastOp.operations[k].error # UndefinedThrown THEN BulkCovers(lastOp.operations, lastOp.out) ELSE (lastOp.out.raised /\ Len(lastOp.out.invoked) < Len(lastOp.operations) + 1 /\ lastOp.out.invoked[Len(lastOp.out.invoked)] \in Raising(lastOp.operations))

\* A call whose second of three operations raised an error and whose others returned.
BulkWithFailureInTheMiddle == IsBulk /\ Len(lastOp.operations) = MaxOps /\ Raising(lastOp.operations) = {2} /\ lastOp.operations[2].error # UndefinedThrown /\ lastOp.out.successCount = MaxOps - 1 /\ lastOp.out.errorCount = 1

\* A call whose first operation raised undefined: the call raised and the second was not invoked.
BulkRaisedOnUndefined == IsBulk /\ Len(lastOp.operations) = 2 /\ lastOp.operations[1].error = UndefinedThrown /\ lastOp.operations[1].raises /\ lastOp.out.raised /\ lastOp.out.invoked = <<1>>

IsStore == lastOp.op = "store" /\ lastOp.ok

IsRetrieve == lastOp.op = "retrieve"

\* The cid was returned by store for a payload within the threshold, and its warm cache
\* entry was never cleared or evicted since.
StoredWarm(st, cid) == cid \in st.storageDeals /\ getDataSize(PayloadOf(cid)) <= WarmStorageThreshold /\ cid \notin st.evicted

\* C21 as claimed: after store(payload) returned cid for a payload within the warm storage threshold,
\* and with no clearing or eviction in between, retrieve(cid, true) returns the stored
\* payload with source warm_cache and does not go to the network.
C21_RetrieveStoredFromWarmCache == (IsRetrieve /\ lastOp.verifyIntegrity /\ StoredWarm(lastOp.before, lastOp.cid)) => (lastOp.ok /\ lastOp.data = PayloadOf(lastOp.cid) /\ lastOp.source = "warm_cache" /\ ~lastOp.backend)

\* What the code does: the call returns what the warm cache holds under the cid, which a
\* retrieve(cid, false) in between has replaced by the data the network returned.
RetrieveReturnsCachedEntry == (IsRetrieve /\ lastOp.verifyIntegrity /\ StoredWarm(lastOp.before, lastOp.cid)) => (lastOp.ok /\ CacheHas(lastOp.before.warmCache, lastOp.cid) /\ lastOp.data = CacheGet(lastOp.before.warmCache, lastOp.cid) /\ lastOp.source = "warm_cache" /\ ~lastOp.backend)

\* A payload of exactly the threshold was stored and retrieved.
RetrievedStoredPayload == IsRetrieve /\ lastOp.verifyIntegrity /\ StoredWarm(lastOp.before, lastOp.cid) /\ PayloadOf(lastOp.cid) = "edge" /\ lastOp.data = "edge" /\ lastOp.source = "warm_cache"

\* A stored payload was retrieved from the warm cache as the network's simulated data.
RetrievedSimulatedFromWarmCache == IsRetrieve /\ lastOp.verifyIntegrity /\ StoredWarm(lastOp.before, lastOp.cid) /\ lastOp.source = "warm_cache" /\ lastOp.data = SimulatedData

IsVerifyProof == lastOp.op = "verifyStorageProof"

\* C22 as claimed: for a cid returned by store, verifyStorageProof(cid, data) is false for
\* every data that differs from the stored payload, and true only for the stored payload.
C22_VerifyRejectsOtherPayload == (IsVerifyProof /\ lastOp.cid \in lastOp.before.storageDeals) => (lastOp.valid => lastOp.data = PayloadOf(lastOp.cid))

\* What the code does: the data is compared with itself, so the result is whether the cid
\* has a deal record with active deals, whatever the data.
VerifyIgnoresPayload == IsVerifyProof => (lastOp.ok /\ lastOp.valid = (lastOp.cid \in lastOp.before.storageDeals))

\* A payload other than the stored one was verified as valid.
VerifiedOtherPayload == IsVerifyProof /\ lastOp.cid \in lastOp.before.storageDeals /\ PayloadOf(lastOp.cid) = "a" /\ lastOp.data = "big" /\ lastOp.valid

\* C23 as claimed: verifyStorageProof for a cid without a recorded proof raises
\* ProofNotFound instead of returning a boolean, and leaves the warm cache, the deal
\* records and the verification cache unchanged.
C23_VerifyUnknownCidRaises == (IsVerifyProof /\ lastOp.cid \notin lastOp.before.storageDeals) => (~lastOp.ok /\ store = lastOp.before)

\* What the code does: the call returns false and leaves the store unchanged.
VerifyUnknownCidReturnsFalse == (IsVerifyProof /\ lastOp.cid \notin lastOp.before.storageDeals) => (lastOp.ok /\ ~lastOp.valid /\ store = lastOp.before)

\* A cid never returned by store was verified on a store that holds another payload.
VerifiedUnknownCid == IsVerifyProof /\ lastOp.cid = ForeignCid /\ lastOp.before.storageDeals # {} /\ ~lastOp.valid

IsFsRetrieve == lastOp.op = "fs.retrieve"

\* The cached payload of the retrieved cid failed its verification in this call.
CachedFailed == lastOp.verifyIntegrity /\ CacheHas(lastOp.before.warmCache, lastOp.cid) /\ lastOp.cacheCheck \in {"invalid", "raised"}

\* C24 as claimed: when retrieve(cid, true) finds a warm cache entry whose payload fails
\* verification, the entry is removed and the call goes to the backend; no payload that
\* failed verification in the call is returned with source warm_cache.
C24_FailedCacheEntryEvicted == (IsFsRetrieve /\ CachedFailed) => (~CacheHas(fs.warmCache, lastOp.cid) /\ lastOp.backend /\ lastOp.source # "warm_cache")

\* What the simple store does: the call raises, keeps the entry and does not go to the backend.
FailedCacheEntryRaises == (IsFsRetrieve /\ CachedFailed) => (~lastOp.ok /\ fs = lastOp.before /\ ~lastOp.backend /\ lastOp.source # "warm_cache")

\* What the store with deals does: the entry is removed and the call goes to the network.
FailedCacheEntryEvictedByStore == (IsRetrieve /\ CachedFailed) => (~CacheHas(store.warmCache, lastOp.cid) /\ lastOp.cid \in store.evicted /\ lastOp.backend /\ lastOp.source # "warm_cache")

\* The simple store cached an unproven cid's data and then failed to verify it.
FsCachedFailed == IsFsRetrieve /\ CachedFailed /\ CacheHas(fs.warmCache, lastOp.cid)

\* The store with deals evicted a cached entry that failed verification.
StoreEvictedFailed == IsRetrieve /\ CachedFailed /\ ~lastOp.ok

IsFsStore == lastOp.op = "fs.store"

\* C28 as claimed: the cid store returns depends on the payload only: a store of a payload
\* stored before, at another time or with other metadata, returns the cid returned
\* before, and a store of another payload returns another cid.
C28_CidFromPayloadOnly == IsFsStore => (\A c \in lastOp.before.pdpProofs : (c = lastOp.cid) <=> (PayloadOf(c) = lastOp.data))

\* What the code does: the cid is a hash of the payload, the metadata and the time of the
\* call, so it is the cid returned before only for the same payload, metadata and time.
CidFromPayloadMetadataTime == IsFsStore => (lastOp.cid = uploadToFilecoin(lastOp.data, lastOp.metadata, lastOp.at) /\ (\A c \in lastOp.before.pdpProofs : (c = lastOp.cid) <=> (PayloadOf(c) = lastOp.data /\ c[3] = lastOp.metadata /\ c[4] = lastOp.at)) /\ (\A c \in lastOp.before.pdpProofs : (PayloadOf(c) # lastOp.data) => (c # lastOp.cid)))

\* The same payload was stored again later with the same metadata and got another cid.
StoredAgainOtherCid == IsFsStore /\ (\E c \in lastOp.before.pdpProofs : PayloadOf(c) = lastOp.data /\ c[3] = lastOp.metadata /\ c[4] < lastOp.at /\ c # lastOp.cid)

\* Node id of the graph is in the type index, in the tag index under each of its tags and,
\* when linked, in the cid index.
Indexed(g, node) == node.id \in g.byType[node.nodeType] /\ (\A k \in 1..Len(node.tags) : node.id \in g.byTags[node.tags[k]]) /\ (Truthy(node.cid) => g.byCid[node.cid] = node.id)

\* C25 as claimed: whatever the order of addNode, linkToFilecoin and addTag, every node of
\* the graph is in its type index, in the tag index under each of its current tags and,
\* when its cid is not null, in the cid index.
C25_NodesAreIndexed == \A i \in 1..Len(graph.nodes) : Indexed(graph, objs[graph.nodes[i]])

\* What the code does: every node of the graph is in its type index; the tag and cid
\* indices hold what the node had when addNode was called.
NodesAreIndexedByType == \A i \in 1..Len(graph.nodes) : graph.nodes[i] \in graph.byType[objs[graph.nodes[i]].nodeType]

\* A node was tagged after it was added to the graph and the tag index does not have it.
TaggedAfterAddNotIndexed == lastOp.op = "addTag" /\ Includes(graph.nodes, lastOp.id) /\ (\E t \in Tags : Includes(objs[lastOp.id].tags, t) /\ lastOp.id \notin graph.byTags[t])

IsAddNode == lastOp.op = "addNode" /\ lastOp.id # NoNode

\* The node added has a cid that the cid index had for another node.
DuplicateCid == IsAddNode /\ lastOp.prior # NoNode /\ lastOp.prior # lastOp.id

\* C26 as claimed: addNode of a node whose cid is indexed for another node fails and the
\* index entry of the first node stays, so no two nodes of the graph share a cid.
C26_DuplicateCidRejected == DuplicateCid => (~lastOp.ok /\ graph.byCid[objs[lastOp.id].cid] = lastOp.prior /\ ~Includes(graph.nodes, lastOp.id))

\* What the code does: the node is added and the index entry of its cid is overwritten.
DuplicateCidOverwrites == DuplicateCid => (lastOp.ok /\ graph.byCid[objs[lastOp.id].cid] = lastOp.id /\ Includes(graph.nodes, lastOp.id) /\ Includes(graph.nodes, lastOp.prior) /\ objs[lastOp.prior].cid = objs[lastOp.id].cid)

\* Two nodes of the graph share a cid after an addNode.
TwoNodesShareCid == DuplicateCid /\ (\E i, j \in 1..Len(graph.nodes) : i # j /\ Truthy(objs[graph.nodes[i]].cid) /\ objs[graph.nodes[i]].cid = objs[graph.nodes[j]].cid)

IsPrefix(h, k) == Len(h) <= Len(k) /\ (\A i \in 1..Len(h) : h[i] = k[i])

IsQuery == lastOp.op = "query"

\* The selection the claim describes: by cid, else by type, else by the union of the
\* tags, else by date range, else all nodes.
ClaimedSelection(q) == IF q.cid # Undefined THEN {id \in Range(graph.nodes) : getNodeByCid(graph, q.cid) = id} ELSE IF q.nodeType # Undefined THEN {id \in Range(graph.nodes) : id \in getNodesByType(graph, q.nodeType)} ELSE IF q.hasTags /\ q.tags # <<>> THEN {id \in Range(graph.nodes) : \E k \in 1..Len(q.tags) : id \in getNodesByTag(graph, q.tags[k])} ELSE IF q.hasRange THEN {id \in Range(graph.nodes) : id \in getNodesByDateRange(graph, q.start, q.end)} ELSE Range(graph.nodes)

\* The selected nodes the verified filter keeps.
ClaimedKept(q) == {id \in ClaimedSelection(q) : q.verified = Undefined \/ (objs[id].cid # NoCid) = (q.verified = "true")}

\* The kept nodes whose key comes strictly before that of node id in the sorted order.
Before(q, id) == {x \in ClaimedKept(q) : ~InOrder(objs[id], objs[x], q.sortBy, q.sortOrder)}

\* The kept nodes whose key does not come after that of node id.
NotAfter(q, id) == {x \in ClaimedKept(q) : InOrder(objs[x], objs[id], q.sortBy, q.sortOrder)}

\* The results are the positions offset + 1 .. offset + limit of the kept nodes in sorted order.
IsPage(q, res) == Len(res) <= q.limit /\ (\A i, j \in 1..Len(res) : i # j => res[i].id # res[j].id) /\ (\A i \in 1..Len(res) : res[i].id \in ClaimedKept(q) /\ Cardinality(Before(q, res[i].id)) <= q.offset + i - 1 /\ Cardinality(NotAfter(q, res[i].id)) >= q.offset + i) /\ (Len(res) < q.limit => Len(res) + q.offset >= Cardinality(ClaimedKept(q)))

\* C29: query applies one primary selector, in the order cid, nodeType, tags, dateRange,
\* else all nodes; keeps the nodes whose linked status equals verified when that is given;
\* returns at most limit results from offset on in the sorted order; and every result
\* carries verified = (cid is not null).
C29_QuerySelectsFiltersPages == IsQuery => (IsPage(lastOp.q, lastOp.results) /\ (\A i \in 1..Len(lastOp.results) : lastOp.results[i].verified = (objs[lastOp.results[i].id].cid # NoCid)))

\* A query giving a cid and a type returned only the node of the cid, the graph holding
\* another node of the type.
C29_Witness == IsQuery /\ lastOp.q.cid = "c1" /\ lastOp.q.nodeType = "dataset" /\ Len(lastOp.results) = 1 /\ Len(graph.nodes) = QueryNodes /\ lastOp.results[1].verified

RetryCompleted == rt.pc \in {"returned", "raised"}

\* C30 as claimed: a call of withRetry cannot block forever: whether the operation keeps
\* failing or hangs, the call completes in the end.
C30_RetryCompletes == (rt.pc = "awaiting") ~> RetryCompleted

\* What the code does: the call completes unless the operation awaited never settles.
RetryCompletesUnlessHung == (rt.pc = "awaiting") ~> (RetryCompleted \/ rt.pc = "hung")

\* The operation of a retry hung after earlier attempts had failed.
RetryHungAfterFailures == rt.pc = "hung" /\ rt.attempt >= 1 /\ Len(rt.log) >= 1

\* The chain 1 -> ... -> n was queried at its last node with a depth bound that is
\* shorter than the chain.
ChainCutOff(n) == tpc = "done" /\ n >= 2 /\ IsChain(n) /\ targ.nodeId = n /\ targ.maxDepth < n - 1

\* C31 as claimed: when the walk is cut off by the depth bound, getProvenance returns the
\* truncated path of maxDepth + 1 steps rather than no path at all.
C31_TruncatedPathEmitted == \A n \in 2..MaxNodes : (ChainCutOff(n) => (\E k \in 1..Len(tprov) : Len(tprov[k]) = targ.maxDepth + 1))

\* What the code returns: a walk cut off by the depth bound contributes no path.
CutOffWalkEmitsNothing == \A n \in 2..MaxNodes : (ChainCutOff(n) => (tprov = <<>> /\ Cardinality(tvisited) = targ.maxDepth + 1))

\* The chain of MaxNodes nodes queried with maxDepth 1: nothing was returned.
CutOffChainQueried == ChainCutOff(MaxNodes) /\ targ.maxDepth = 1 /\ tprov = <<>>

\* A call was made through a half-open breaker while the trial call of another caller
\* was still awaiting the wrapped operation.
CalledDuringTrial == IsBreakerCall /\ lastOp.before.state = "HALF_OPEN" /\ (\E d \in Callers \ {lastOp.caller} : calls[d].pc = "awaiting" /\ calls[d].trial)

\* C32 as claimed: while the trial call of a half-open breaker is in flight, another call
\* through the breaker does not invoke the wrapped operation.
C32_HalfOpenAdmitsOneTrial == CalledDuringTrial => ~lastOp.invoked

\* What the code does: only the OPEN state is tested on entry, so a half-open breaker
\* invokes the operation for every caller and leaves its state as it is.
HalfOpenAdmitsEveryCall == (IsBreakerCall /\ lastOp.before.state = "HALF_OPEN") => (lastOp.invoked /\ lastOp.ok /\ cb = lastOp.before /\ calls[lastOp.caller].pc = "awaiting")

\* Two calls await the wrapped operation of a half-open breaker.
TwoCallsDuringTrial == CalledDuringTrial /\ lastOp.invoked /\ (\A c \in Callers : calls[c].pc = "awaiting")

\* The cids store handed out or is about to hand out.
StoreCids == store.storageDeals \cup store.pending

\* retrieve(cid, true) was called while the store call of cid had cached its payload.
RetrievedDuringStore == IsRetrieve /\ lastOp.verifyIntegrity /\ lastOp.cid \in lastOp.before.pending /\ CacheHas(lastOp.before.warmCache, lastOp.cid) /\ CacheGet(lastOp.before.warmCache, lastOp.cid) = PayloadOf(lastOp.cid)

\* C33 as claimed: whenever the warm cache holds the payload of a store call, the deal
\* record of its cid exists, and a retrieve(cid, true) interleaved with the store call
\* returns the cached payload and evicts nothing.
C33_CachedImpliesDealRecorded == (\A e \in store.warmCache : (e.cid \in StoreCids => e.cid \in store.storageDeals)) /\ (RetrievedDuringStore => (lastOp.ok /\ lastOp.data = PayloadOf(lastOp.cid) /\ CacheHas(store.warmCache, lastOp.cid)))

\* What the code does: between the cache insert and the deal record the proof check
\* finds no deal, so the interleaved retrieve deletes the entry and fails on the network path.
RetrieveDuringStoreEvicts == RetrievedDuringStore => (~lastOp.ok /\ lastOp.cacheCheck = "invalid" /\ lastOp.backend /\ lastOp.cid \in store.evicted /\ ~CacheHas(store.warmCache, lastOp.cid))

\* The simple store writes the cache entry and the proof in one step.
FsCachedOnStoreHasProof == IsFsStore => (lastOp.cid \in fs.pdpProofs /\ (\A e \in fs.warmCache : (e.cid \in lastOp.before.pdpProofs \/ e.cid = lastOp.cid) => e.cid \in fs.pdpProofs))

\* A store call finished after an interleaved retrieve had evicted its payload.
StoredAfterEviction == lastOp.op = "storeFinish" /\ lastOp.cid \in store.evicted /\ lastOp.cid \in store.storageDeals /\ ~CacheHas(store.warmCache, lastOp.cid)

\* The operations in flight and completed are those of the wave of the given width that
\* starts at bs.i, and every earlier item has its result.
WaveDiscipline(width) == Cardinality(bs.pending) <= width /\ (bs.pending \cup DOMAIN bs.settled = {k \in 1..Len(bs.items) : bs.i <= k /\ k < bs.i + width}) /\ (bs.pending \cap DOMAIN bs.settled = {}) /\ Len(bs.results) = bs.i - 1 /\ (bs.i - 1) % width = 0

\* The result at k is the result of item k of batchStore.
StoreResultOf(k) == IF bs.results[k].success THEN (Stored(k) /\ PayloadOf(bs.results[k].cid) = bs.items[k].data) ELSE ~Stored(k)

\* C34: batchStore runs its store calls in waves of 5 and batchRetrieve its retrieve calls
\* in waves of 10: the calls in flight belong to one wave, a wave starts only when every
\* call of the wave before it has completed, and the results are in the order of the inputs.
C34_WavesJoinInOrder == (bs.pc = "wave" => (WaveDiscipline(5) /\ (\A k \in 1..Len(bs.results) : StoreResultOf(k)))) /\ (bs.pc = "rwave" => (WaveDiscipline(10) /\ (\A k \in 1..Len(bs.results) : bs.results[k].cid = bs.items[k]))) /\ (bs.pc = "done" => (Len(bs.results) = Len(bs.items) /\ (\A k \in 1..Len(bs.items) : StoreResultOf(k)))) /\ (bs.pc = "rdone" => (Len(bs.results) = Len(bs.items) /\ (\A k \in 1..Len(bs.items) : bs.results[k].cid = bs.items[k])))

\* The second wave of a batchRetrieve of MaxCids cids is in flight after a first wave in
\* which one cid was retrieved and the others failed.
C34_Witness == bs.pc = "rwave" /\ Len(bs.items) = MaxCids /\ bs.i = RetrieveBatchSize + 1 /\ bs.pending = {MaxCids} /\ Len(bs.results) = RetrieveBatchSize /\ bs.results[3].success /\ ~bs.results[2].success

IsVerifyDeals == lastOp.op = "verifyDeals"

\* The number of deals in an active state.
ActiveDeals(deals) == Cardinality({k \in 1..Len(deals) : deals[k] \in {"Active", "Storing"}})

\* C35 as claimed: the deal check passes exactly when strictly more than half of the
\* recorded deals are active, so it fails at exactly half and without any deal.
C35_QuorumStrictMajority == IsVerifyDeals => (lastOp.valid <=> (2 * ActiveDeals(lastOp.deals) > Len(lastOp.deals)))

\* What the code computes: at least half of the deals, which passes at exactly half and
\* for an empty list of deals.
QuorumAtLeastHalf == IsVerifyDeals => (lastOp.valid <=> (2 * ActiveDeals(lastOp.deals) >= Len(lastOp.deals)))

\* The check passed with one active deal out of two.
HalfActivePasses == IsVerifyDeals /\ Len(lastOp.deals) = 2 /\ ActiveDeals(lastOp.deals) = 1 /\ lastOp.valid

IsOptimize == lastOp.op = "optimizeCache"

CidsOf(cache) == {cache[k].cid : k \in 1..Len(cache)}

\* The entries of the cache before optimizeCache that are gone after it.
EvictedEntries == {lastOp.before[k] : k \in {j \in 1..Len(lastOp.before) : lastOp.before[j].cid \notin CidsOf(lastOp.after)}}

RetainedEntries == {lastOp.after[k] : k \in 1..Len(lastOp.after)}

\* C36: after optimizeCache the cache holds at most the maximum number of entries; above
\* the maximum exactly size - max entries are removed, none of them accessed more often
\* than an entry that stays; a cache that is not above the maximum is left as it is.
C36_EvictsLeastAccessed == IsOptimize => (Len(lastOp.after) <= MaxCacheSize /\ (Len(lastOp.before) > MaxCacheSize => Cardinality(EvictedEntries) = Len(lastOp.before) - MaxCacheSize) /\ (Len(lastOp.before) <= MaxCacheSize => lastOp.after = lastOp.before) /\ (RetainedEntries \subseteq {lastOp.before[k] : k \in 1..Len(lastOp.before)}) /\ (Len(lastOp.after) + Cardinality(EvictedEntries) = Len(lastOp.before)) /\ (\A e \in EvictedEntries, r \in RetainedEntries : e.accessCount <= r.accessCount))

\* A full cache was cut to the maximum: the oldest entry stayed, the newest went, and an
\* entry went that was accessed as often as one that stayed.
C36_Witness == IsOptimize /\ Len(lastOp.before) = MaxEntries /\ Len(lastOp.after) = MaxCacheSize /\ lastOp.after[1] = lastOp.before[1] /\ lastOp.before[MaxEntries] \in EvictedEntries /\ (\E e \in EvictedEntries, r \in RetainedEntries : e.accessCount = r.accessCount) /\ (\E e \in EvictedEntries, r \in RetainedEntries : e.accessCount < r.accessCount)

IsEdgeVerify == lastOp.op = "edgeVerify"

\* The proof of the edge records the hashes of the data of the two nodes.
ProofMatches == lastOp.edge.transformationProof[1] = Hash(lastOp.srcData) /\ lastOp.edge.transformationProof[2] = Hash(lastOp.tgtData)

\* C37 as claimed: edge.verify fails when a node is absent; for an edge with a
\* transformation proof, however it was set, it succeeds exactly when the hashes of the
\* nodes' data are those of the proof, and raises the proof error otherwise; the edge is
\* verified after the call exactly when the call succeeded.
C37_EdgeProofAlwaysChecked == IsEdgeVerify => (((~lastOp.srcOk \/ ~lastOp.tgtOk) => (~lastOp.ok /\ lastOp.err = ErrEdgeMissing)) /\ ((lastOp.srcOk /\ lastOp.tgtOk /\ lastOp.edge.transformationProof # NoProof) => ((lastOp.ok <=> ProofMatches) /\ (~lastOp.ok => lastOp.err = ErrEdgeProof))) /\ (lastOp.after.verified <=> lastOp.ok))

\* What the code does: the proof is compared only when setTransformationDetails recorded a
\* transformation; a proof given to the constructor alone is never compared.
EdgeProofCheckedIfDetailsSet == IsEdgeVerify => (((~lastOp.srcOk \/ ~lastOp.tgtOk) => (~lastOp.ok /\ lastOp.err = ErrEdgeMissing)) /\ ((lastOp.srcOk /\ lastOp.tgtOk /\ lastOp.edge.transformationProof # NoProof /\ lastOp.edge.hasTransformation) => ((lastOp.ok <=> ProofMatches) /\ (~lastOp.ok => lastOp.err = ErrEdgeProof))) /\ ((lastOp.srcOk /\ lastOp.tgtOk /\ ~lastOp.edge.hasTransformation) => lastOp.ok) /\ (lastOp.after.verified <=> lastOp.ok))

\* An edge constructed with a proof of other data was verified.
CtorProofMismatchVerified == IsEdgeVerify /\ lastOp.ok /\ lastOp.after.verified /\ lastOp.edge.transformationProof # NoProof /\ ~lastOp.edge.hasTransformation /\ ~ProofMatches

\* The counters of getGraphMetrics are those of the graph as it is.
MetricsMatch == getGraphMetrics(graph).totalNodes = Len(graph.nodes) /\ getGraphMetrics(graph).totalEdges = Len(graph.edges) /\ getGraphMetrics(graph).verifiedNodes = Cardinality({i \in 1..Len(graph.nodes) : objs[graph.nodes[i]].cid # NoCid}) /\ getGraphMetrics(graph).totalStorage = SumSeq([i \in 1..Len(graph.nodes) |-> objs[graph.nodes[i]].dataSize])

\* C38 as claimed: in every state reached by addNode, addEdge, linkToFilecoin and
\* importGraph, getGraphMetrics reports the number of nodes, the number of edges, the
\* number of nodes with a cid and the sum of the nodes' dataSize.
C38_MetricsMatchGraph == MetricsMatch

\* What the code keeps: the counters are those of the graph right after an addNode or
\* addEdge that succeeded, which is when updateMetrics runs.
MetricsMatchAfterAdd == (lastOp.op \in {"addNode", "addEdge"} /\ lastOp.ok) => MetricsMatch

\* A node of the graph was linked and is not counted as verified.
LinkedNodeNotCounted == lastOp.op = "linkToFilecoin" /\ lastOp.ok /\ HasNode(graph, lastOp.id) /\ objs[lastOp.id].cid # NoCid /\ getGraphMetrics(graph).verifiedNodes = 0

\* An import of a snapshot without nodes left the counters of the graph it cleared.
EmptyImportKeepsCounters == lastOp.op = "importGraph" /\ lastOp.ok /\ Len(graph.nodes) = 0 /\ getGraphMetrics(graph).totalNodes >= 1

\* A call of the breaker returns in this step.
ReturnStep == lastOp'.op = "breakerReturn" /\ (\E c \in Callers : calls[c].pc = "awaiting" /\ calls'[c].pc = "idle")

SourceNodes == {n \in Range(graph.nodes) : \A i \in 1..Len(graph.edges) : Edge(i).targetId # n}

\* Step i of path p is joined to step i + 1 by an edge of the graph that runs from the
\* node of step i + 1 to the node of step i.
FollowsEdgeBack(p, i) == \E k \in 1..Len(graph.edges) : Edge(k).id = p[i].edge /\ Edge(k).targetId = p[i].node /\ Edge(k).sourceId = p[i + 1].node

\* A path of getProvenance as claimed: from the queried node, backwards along edges, to
\* a node without incoming edges whose step has no edge.
WellFormedPath(p) == Len(p) >= 1 /\ p[1].node = targ.nodeId /\ (\A i \in 1..(Len(p) - 1) : FollowsEdgeBack(p, i)) /\ p[Len(p)].edge = NoEdge /\ p[Len(p)].node \in SourceNodes /\ (\A i \in 1..Len(p) : p[i].depth = i - 1)

\* Two paths that hold the same node reach it by the same steps.
SharedThroughOneBranch(p, q) == \A i \in 1..Len(p), j \in 1..Len(q) : (p[i].node = q[j].node => (i = j /\ SubSeq(p, 1, i - 1) = SubSeq(q, 1, i - 1)))

\* C40: every path getProvenance collects starts at the queried node, follows one
\* existing edge backwards per step and ends with an edge-less step at a node without
\* incoming edges; a source node ends at most one path, so there are at most as many
\* paths as source nodes, and a node two branches lead to is reported through one of them.
C40_PathsWellFormed == (\A k \in 1..Len(tprov) : WellFormedPath(tprov[k])) /\ (\A k \in 1..Len(tprov), m \in 1..Len(tprov) : ((tprov[k][Len(tprov[k])].node = tprov[m][Len(tprov[m])].node => k = m) /\ SharedThroughOneBranch(tprov[k], tprov[m]))) /\ Len(tprov) <= Cardinality(SourceNodes)

\* A finished query of a node that the one source of the graph reaches directly and
\* through a third node: one path was returned, through the first incoming edge.
C40_Witness == tpc = "done" /\ Len(graph.edges) = 3 /\ Cardinality(SourceNodes) = 1 /\ Len(tprov) = 1 /\ Len(tprov[1]) = 3 /\ tprov[1][1].edge = 1 /\ (\E s \in SourceNodes : \E i \in 1..3, j \in 1..3 : Edge(i).sourceId = s /\ Edge(i).targetId = targ.nodeId /\ Edge(j).sourceId = s /\ Edge(j).targetId \notin {s, targ.nodeId} /\ texpanded[Edge(j).targetId] = 1)

====
